---- MODULE Spec2Model ----
(***************************************************************************)
(* The shopping-cart tools of the e-commerce examples:                     *)
(*   - the direct-tool agent  (Class 3 - Mastering Tools/Ecommerce/agent.py)*)
(*   - the MCP tool server    (Class 4 - MCP/MCP_Ecommerce/                *)
(*                             ecommerce_mcp_server.py)                    *)
(* The two are separate programs, each with its own process-wide cart.     *)
(* A behaviour of this model is a run of ONE of them: `program` is chosen  *)
(* in Init and never changes.                                              *)
(*                                                                         *)
(* Money.  The code computes amounts as Python numbers in currency units   *)
(* (prices are ints, discount and tax are floats).  The model keeps every  *)
(* amount as an integer number of CENTS and every rate as an integer       *)
(* PERCENT; with the catalog's prices (multiples of 10) and the rates of   *)
(* the code (10, 20, 30 and 8 percent) every product amount * rate is a    *)
(* whole number of cents, so the model's values are the exact decimal      *)
(* values the floats of the code stand for.                                *)
(*                                                                         *)
(* Strings that are looked up (product queries, catalog keys, discount     *)
(* codes) are sequences of one-character strings so that strip(), lower(), *)
(* upper() and difflib's similarity ratio are computed, not assumed.       *)
(***************************************************************************)
EXTENDS Integers, Sequences, FiniteSets, TLC

VARIABLES
    program,   \* "agent" (agent.py) or "mcp" (ecommerce_mcp_server.py)
    cart,      \* the Cart singleton: [items, discount_code]
    call,      \* the tool call that was last executed: [tool, arguments]
    result,    \* the dict that call returned
    found_by,  \* the key find_product_fuzzy finds, per product name in use
    search_history,  \* the list search_history: the names searched for
    products_db,     \* the dict PRODUCTS_DB of the running program
    \* the agent and the tool server side by side (PairSpec): cart, result and
    \* products_db are the agent's, and
    shopping_cart,   \* the server's Cart singleton shopping_cart
    mcp_result,      \* the dict the server answered to the same call
    \* the webhook relay Deploy/whatsapp_test/app.py (WebhookSpec)
    message_cache,        \* message_cache.cache: hash -> time of insertion
    processing_messages,  \* the set processing_messages of message ids
    background_tasks,     \* the tasks added with add_task that have not run
    clock,                \* datetime.now(), in seconds
    accepted_at,          \* per hash, the times a delivery passed is_duplicate
    \* the workflow agents of Class 5 (WorkflowSpec)
    session_state,   \* the session state: output_key -> text
    running,         \* per agent of the workflow: "pending", "running", "done"
    times_looped,    \* the iterations the LoopAgent has completed
    escalate         \* actions.escalate of the last tool call

cartVars == <<cart, call, result, found_by, search_history, products_db>>
pairVars == <<shopping_cart, mcp_result>>
webhookVars == <<message_cache, processing_messages, background_tasks, clock, accepted_at>>
workflowVars == <<session_state, running, times_looped, escalate>>

vars == <<program, cartVars, pairVars, webhookVars, workflowVars>>

Programs == {"agent", "mcp"}

(***************************************************************************)
(* Bounds of the model (not program constants).                            *)
(***************************************************************************)
\* largest quantity argument a caller passes
MaxQty == 2
\* the model makes no call that would leave more units than this in the cart
MaxCartUnits == 5
\* the model makes no search once search_history holds this many names
MaxHistory == 2
\* the seconds that pass between two readings of the webhook relay's clock
TickSeconds == 100
\* the model lets the relay's clock run no further than this many seconds
MaxClock == 400

(***************************************************************************)
(* Python values and characters                                            *)
(***************************************************************************)
\* Python's None; a value no string of characters is equal to
None == <<"None">>

\* The characters that occur in the model, in code-point order.
Alphabet ==
    <<" ", ".", "0", "1", "2", "3", "4", "5", "6", "7", "8", "9",
      "A", "B", "C", "D", "E", "F", "G", "H", "I", "J", "K", "L", "M",
      "N", "O", "P", "Q", "R", "S", "T", "U", "V", "W", "X", "Y", "Z",
      "a", "b", "c", "d", "e", "f", "g", "h", "i", "j", "k", "l", "m",
      "n", "o", "p", "q", "r", "s", "t", "u", "v", "w", "x", "y", "z">>

Ord(c) == CHOOSE i \in 1..Len(Alphabet) : Alphabet[i] = c

IsUpper(c) == Ord(c) \in Ord("A")..Ord("Z")
IsLower(c) == Ord(c) \in Ord("a")..Ord("z")

\* str.lower() and str.upper(), character by character
lower(s) == [i \in 1..Len(s) |-> IF IsUpper(s[i]) THEN Alphabet[Ord(s[i]) + 26] ELSE s[i]]
\* MUTANT of upper: the code is compared as it was typed
upper_AsTyped(s) == s

upper(s) == [i \in 1..Len(s) |-> IF IsLower(s[i]) THEN Alphabet[Ord(s[i]) - 26] ELSE s[i]]

\* str.strip(): drop leading and trailing whitespace
strip(s) ==
    LET keep == {i \in 1..Len(s) : s[i] # " "}
    IN  IF keep = {} THEN <<>>
        ELSE LET lo == CHOOSE i \in keep : \A j \in keep : i <= j
                 hi == CHOOSE i \in keep : \A j \in keep : i >= j
             IN  SubSeq(s, lo, hi)

\* s < t in Python's string order
RECURSIVE StrLess(_, _)
StrLess(s, t) ==
    IF t = <<>> THEN FALSE
    ELSE IF s = <<>> THEN TRUE
    ELSE IF s[1] # t[1] THEN Ord(s[1]) < Ord(t[1])
    ELSE StrLess(Tail(s), Tail(t))

(***************************************************************************)
(* difflib.SequenceMatcher(None, a, b).ratio() with no junk (the autojunk  *)
(* heuristic only applies to sequences of 200 or more elements)            *)
(***************************************************************************)
\* length of the common run of a[i..ahi] and b[j..bhi]
RECURSIVE RunLen(_, _, _, _, _, _)
RunLen(a, b, i, j, ahi, bhi) ==
    IF i > ahi \/ j > bhi THEN 0
    ELSE IF a[i] # b[j] THEN 0
    ELSE 1 + RunLen(a, b, i + 1, j + 1, ahi, bhi)

\* the longest matching block in a[alo..ahi], b[blo..bhi]; of the longest
\* the one that starts earliest in a, and of those earliest in b
find_longest_match(a, b, alo, ahi, blo, bhi) ==
    LET starts == {p \in (alo..ahi) \X (blo..bhi) : a[p[1]] = b[p[2]]}
        size(p) == RunLen(a, b, p[1], p[2], ahi, bhi)
    IN  IF starts = {} THEN [i |-> alo, j |-> blo, size |-> 0]
        ELSE LET best == CHOOSE p \in starts : \A r \in starts :
                            \/ size(p) > size(r)
                            \/ /\ size(p) = size(r)
                               /\ \/ p[1] < r[1]
                                  \/ p[1] = r[1] /\ p[2] <= r[2]
             IN  [i |-> best[1], j |-> best[2], size |-> size(best)]

\* the sum of the sizes of get_matching_blocks()
RECURSIVE matches(_, _, _, _, _, _)
matches(a, b, alo, ahi, blo, bhi) ==
    IF alo > ahi \/ blo > bhi THEN 0
    ELSE LET m == find_longest_match(a, b, alo, ahi, blo, bhi)
         IN  IF m.size = 0 THEN 0
             ELSE m.size
                  + matches(a, b, alo, m.i - 1, blo, m.j - 1)
                  + matches(a, b, m.i + m.size, ahi, m.j + m.size, bhi)

\* ratio() = 2.0 * matches / (len(a) + len(b)), kept as the pair
\* <<numerator, denominator>>; 1.0 when both are empty
ratio(a, b) ==
    IF Len(a) + Len(b) = 0 THEN <<1, 1>>
    ELSE <<2 * matches(a, b, 1, Len(a), 1, Len(b)), Len(a) + Len(b)>>

\* r >= cutoff, the cutoff given in hundredths
RatioAtLeast(r, cutoffPct) == r[1] * 100 >= cutoffPct * r[2]
RatioLess(r, s) == r[1] * s[2] < s[1] * r[2]

\* difflib.get_close_matches(word, possibilities, n=1, cutoff): the
\* possibilities that score at least cutoff, best (score, x) first
get_close_matches(word, possibilities, cutoffPct) ==
    LET scored == {i \in 1..Len(possibilities) :
                      RatioAtLeast(ratio(possibilities[i], word), cutoffPct)}
        score(i) == ratio(possibilities[i], word)
    IN  IF scored = {} THEN <<>>
        ELSE LET top == CHOOSE i \in scored : \A k \in scored \ {i} :
                            \/ RatioLess(score(k), score(i))
                            \/ /\ ~RatioLess(score(i), score(k))
                               /\ StrLess(possibilities[k], possibilities[i])
             IN  <<possibilities[top]>>

(***************************************************************************)
(* Configuration constants and the product catalog                         *)
(***************************************************************************)
\* TAX_RATE = 0.08, in percent
TAX_RATE == 8
\* SHIPPING_THRESHOLD = 100, in cents
SHIPPING_THRESHOLD == 10000
\* SHIPPING_COST = 10, in cents
SHIPPING_COST == 1000

WELCOME10 == <<"W", "E", "L", "C", "O", "M", "E", "1", "0">>
SAVE20 == <<"S", "A", "V", "E", "2", "0">>
VIP30 == <<"V", "I", "P", "3", "0">>

\* DISCOUNT_CODES: code -> rate in percent, in the dict's order
DISCOUNT_CODES ==
    <<[code |-> WELCOME10, rate |-> 10],
      [code |-> SAVE20, rate |-> 20],
      [code |-> VIP30, rate |-> 30]>>

\* MUTANT of DiscountKeys: the last code of the table is left out
DiscountKeys_DropsLast == [i \in 1..(Len(DISCOUNT_CODES) - 1) |-> DISCOUNT_CODES[i].code]

\* list(DISCOUNT_CODES.keys())
DiscountKeys == [i \in 1..Len(DISCOUNT_CODES) |-> DISCOUNT_CODES[i].code]
\* code in DISCOUNT_CODES
InDiscountCodes(code) == \E i \in 1..Len(DISCOUNT_CODES) : DISCOUNT_CODES[i].code = code
\* DISCOUNT_CODES[code]
DiscountRate(code) ==
    DISCOUNT_CODES[CHOOSE i \in 1..Len(DISCOUNT_CODES) : DISCOUNT_CODES[i].code = code].rate

\* PRODUCTS_DB of agent.py, in the dict's insertion order; prices in cents,
\* ratings in tenths, categories as character sequences
PRODUCTS_DB ==
  <<
    [key |-> <<"g", "a", "m", "i", "n", "g", " ", "l", "a", "p", "t", "o", "p", " ", "p", "r", "o">>,
     id |-> "LPG001", name |-> "Gaming Laptop Pro", price |-> 150000, stock |-> 10,
     category |-> <<"C", "o", "m", "p", "u", "t", "e", "r", "s">>, rating |-> 48, reviews |-> 127],
    [key |-> <<"m", "e", "c", "h", "a", "n", "i", "c", "a", "l", " ", "r", "g", "b", " ", "k", "e", "y", "b", "o", "a", "r", "d">>,
     id |-> "TEC005", name |-> "Mechanical RGB Keyboard", price |-> 12000, stock |-> 25,
     category |-> <<"P", "e", "r", "i", "p", "h", "e", "r", "a", "l", "s">>, rating |-> 46, reviews |-> 89],
    [key |-> <<"4", "k", " ", "h", "d", "r", " ", "m", "o", "n", "i", "t", "o", "r">>,
     id |-> "MON003", name |-> "4K HDR Monitor", price |-> 40000, stock |-> 5,
     category |-> <<"M", "o", "n", "i", "t", "o", "r", "s">>, rating |-> 49, reviews |-> 203],
    [key |-> <<"g", "a", "m", "i", "n", "g", " ", "m", "o", "u", "s", "e", " ", "p", "r", "o">>,
     id |-> "MOU002", name |-> "Gaming Mouse Pro", price |-> 8000, stock |-> 15,
     category |-> <<"P", "e", "r", "i", "p", "h", "e", "r", "a", "l", "s">>, rating |-> 47, reviews |-> 156],
    [key |-> <<"7", ".", "1", " ", "h", "e", "a", "d", "p", "h", "o", "n", "e", "s">>,
     id |-> "AUR004", name |-> "Gaming Headphones 7.1", price |-> 15000, stock |-> 8,
     category |-> <<"A", "u", "d", "i", "o">>, rating |-> 45, reviews |-> 94]
  >>

\* PRODUCTS_DB of ecommerce_mcp_server.py (two keys and names differ)
MCP_PRODUCTS_DB ==
  <<
    [key |-> <<"g", "a", "m", "i", "n", "g", " ", "l", "a", "p", "t", "o", "p", " ", "p", "r", "o">>,
     id |-> "LPG001", name |-> "Gaming Laptop Pro", price |-> 150000, stock |-> 10,
     category |-> <<"C", "o", "m", "p", "u", "t", "e", "r", "s">>, rating |-> 48, reviews |-> 127],
    [key |-> <<"m", "e", "c", "h", "a", "n", "i", "c", "a", "l", " ", "k", "e", "y", "b", "o", "a", "r", "d", " ", "r", "g", "b">>,
     id |-> "TEC005", name |-> "Mechanical Keyboard RGB", price |-> 12000, stock |-> 25,
     category |-> <<"P", "e", "r", "i", "p", "h", "e", "r", "a", "l", "s">>, rating |-> 46, reviews |-> 89],
    [key |-> <<"4", "k", " ", "h", "d", "r", " ", "m", "o", "n", "i", "t", "o", "r">>,
     id |-> "MON003", name |-> "4K HDR Monitor", price |-> 40000, stock |-> 5,
     category |-> <<"M", "o", "n", "i", "t", "o", "r", "s">>, rating |-> 49, reviews |-> 203],
    [key |-> <<"g", "a", "m", "i", "n", "g", " ", "m", "o", "u", "s", "e", " ", "p", "r", "o">>,
     id |-> "MOU002", name |-> "Gaming Mouse Pro", price |-> 8000, stock |-> 15,
     category |-> <<"P", "e", "r", "i", "p", "h", "e", "r", "a", "l", "s">>, rating |-> 47, reviews |-> 156],
    [key |-> <<"g", "a", "m", "i", "n", "g", " ", "h", "e", "a", "d", "s", "e", "t", " ", "7", ".", "1">>,
     id |-> "AUR004", name |-> "Gaming Headset 7.1", price |-> 15000, stock |-> 8,
     category |-> <<"A", "u", "d", "i", "o">>, rating |-> 45, reviews |-> 94]
  >>

\* the catalog of the running program
Catalog(prog) == IF prog = "agent" THEN PRODUCTS_DB ELSE MCP_PRODUCTS_DB

\* list(PRODUCTS_DB.keys())
Keys(db) == [i \in 1..Len(db) |-> db[i].key]
\* PRODUCTS_DB[key]
Lookup(db, key) == db[CHOOSE i \in 1..Len(db) : db[i].key = key]

\* MUTANT of CUTOFF: cutoff=0.4
CUTOFF_Low == 4 * 10

\* the similarity cutoff 0.6 of find_product_fuzzy, in hundredths
CUTOFF == 60

\* find_product_fuzzy(name): the tuple <<key, Product>> found, or the empty
\* tuple where the code returns None (both are false in `if not result`)
find_product_fuzzy(db, name) ==
    LET name_lower == lower(strip(name))
    IN  IF \E i \in 1..Len(db) : db[i].key = name_lower
        THEN <<name_lower, Lookup(db, name_lower)>>
        ELSE LET close == get_close_matches(name_lower, Keys(db), CUTOFF)
             IN  IF close # <<>> THEN <<close[1], Lookup(db, close[1])>> ELSE <<>>

(***************************************************************************)
(* The arguments the tools are called with                                 *)
(***************************************************************************)
\* " Gaming Mouse Pro ": an exact key once stripped and lower-cased
QMouse == <<" ", "G", "a", "m", "i", "n", "g", " ", "M", "o", "u", "s", "e", " ", "P", "r", "o", " ">>
\* "4k monitor": close to "4k hdr monitor" in both catalogs
QMonitor == <<"4", "k", " ", "m", "o", "n", "i", "t", "o", "r">>
\* "mechanical keyboard": close to the keyboard's key in both catalogs
QKeyboard == <<"m", "e", "c", "h", "a", "n", "i", "c", "a", "l", " ", "k", "e", "y", "b", "o", "a", "r", "d">>
\* "leptop": close to no key
QLeptop == <<"l", "e", "p", "t", "o", "p">>

\* "xyz123": close to no key
QXyz == <<"x", "y", "z", "1", "2", "3">>
\* "gaming leptop pro": the laptop's key with one letter wrong
QLeptopFull == <<"g", "a", "m", "i", "n", "g", " ", "l", "e", "p", "t", "o", "p", " ", "p", "r", "o">>

ProductArgs == {QMouse, QMonitor, QKeyboard, QLeptop}
\* the names searched for
SearchArgs == {QLeptop, QXyz, QLeptopFull}

\* the key find_product_fuzzy finds for a name depends on the name and on
\* the keys of PRODUCTS_DB only: the model evaluates it once per name and
\* keeps <<key>>, or <<>> for no key
Tabulated(prog) ==
    [q \in ProductArgs \cup SearchArgs |->
        LET found == find_product_fuzzy(Catalog(prog), q)
        IN  IF found = <<>> THEN <<>> ELSE <<found[1]>>]

\* Python argument values: an int, a float (its value in tenths), None
PyInt(n) == [type |-> "int", value |-> n]
PyFloat(tenths) == [type |-> "float", value |-> tenths]
PyNone == [type |-> "NoneType", value |-> 0]
\* a str passed where a number is expected, such as "2"
PyStr(s) == [type |-> "str", value |-> s]

\* isinstance(v, int)
IsInt(v) == v.type = "int"

\* quantities that are positive ints, from 1 to MaxQty
GoodQuantities == {PyInt(n) : n \in 1..MaxQty}
\* quantities add_to_cart is to refuse: -1, 0 and the float 2.0 (a whole
\* number that is not an int)
BadAddQuantities == {PyInt(-1), PyInt(0), PyFloat(20)}
\* quantities remove_from_cart is to refuse
BadRemoveQuantities == {PyInt(-1), PyInt(0)}
\* the names passed together with a bad quantity: one that resolves and
\* one that does not
BadQuantityProducts == {QMonitor, QLeptop}

\* the keyword arguments of a call: quantity may be left out
AddArguments ==
    {[product |-> p] : p \in ProductArgs}
    \cup {[product |-> p, quantity |-> q] : p \in ProductArgs, q \in GoodQuantities}
    \cup {[product |-> p, quantity |-> q] : p \in BadQuantityProducts, q \in BadAddQuantities}
RemoveArguments ==
    {[product |-> p] : p \in ProductArgs}
    \cup {[product |-> p, quantity |-> q] : p \in ProductArgs, q \in GoodQuantities}
    \cup {[product |-> p, quantity |-> q] : p \in BadQuantityProducts, q \in BadRemoveQuantities}

(***************************************************************************)
(* Data models: CartItem and Cart                                          *)
(***************************************************************************)
\* CartItem(...) with __post_init__ computing subtotal
CartItem(product_id, name, unit_price, quantity) ==
    [product_id |-> product_id, name |-> name, unit_price |-> unit_price,
     quantity |-> quantity, subtotal |-> unit_price * quantity]

\* Cart()
EmptyCart == [items |-> <<>>, discount_code |-> None]

RECURSIVE SumSubtotal(_)
SumSubtotal(items) ==
    IF items = <<>> THEN 0 ELSE Head(items).subtotal + SumSubtotal(Tail(items))

RECURSIVE SumQuantity(_)
SumQuantity(items) ==
    IF items = <<>> THEN 0 ELSE Head(items).quantity + SumQuantity(Tail(items))

\* Cart.get_subtotal
get_subtotal(c) == SumSubtotal(c.items)

\* amount * rate, the rate in percent
Times(amount, ratePct) == (amount * ratePct) \div 100

\* Cart.get_discount_amount
get_discount_amount(c) ==
    IF c.discount_code # None /\ c.discount_code # <<>> /\ InDiscountCodes(c.discount_code)
    THEN Times(get_subtotal(c), DiscountRate(c.discount_code))
    ELSE 0

\* MUTANT of get_tax: the tax is taken on the subtotal before the discount
get_tax_BeforeDiscount(c) == Times(get_subtotal(c), TAX_RATE)

\* Cart.get_tax
get_tax(c) ==
    LET subtotal_after_discount == get_subtotal(c) - get_discount_amount(c)
    IN  Times(subtotal_after_discount, TAX_RATE)

\* MUTANT of get_shipping: the threshold is compared with the discounted
\* amount
get_shipping_AfterDiscount(c) ==
    IF get_subtotal(c) - get_discount_amount(c) >= SHIPPING_THRESHOLD
    THEN 0 ELSE SHIPPING_COST

\* Cart.get_shipping
get_shipping(c) ==
    IF get_subtotal(c) >= SHIPPING_THRESHOLD THEN 0 ELSE SHIPPING_COST

\* Cart.get_total
get_total(c) ==
    LET subtotal == get_subtotal(c)
        discount == get_discount_amount(c)
        tax == get_tax(c)
        shipping == get_shipping(c)
    IN  subtotal - discount + tax + shipping

\* format_price: f"${amount:,.2f}", the text given by its whole units and
\* its two decimals
format_price(amount) == [units |-> amount \div 100, decimals |-> amount % 100]

\* get_cart_item_by_product: the position of the first line with the
\* product id, 0 where the code returns None
get_cart_item_by_product(items, product_id) ==
    IF \E i \in 1..Len(items) : items[i].product_id = product_id
    THEN CHOOSE i \in 1..Len(items) :
            /\ items[i].product_id = product_id
            /\ \A j \in 1..(i - 1) : items[j].product_id # product_id
    ELSE 0


\* discount code arguments: " welcome10" (valid once stripped and
\* upper-cased), "SAVE20", "VIP30" and the unknown "BOGUS"
CodeArgs == {<<" ", "w", "e", "l", "c", "o", "m", "e", "1", "0">>, SAVE20, VIP30, <<"B", "O", "G", "U", "S">>}

(***************************************************************************)
(* The steps both programs share, line for line                            *)
(***************************************************************************)
\* MUTANT of InvalidQuantity: zero passes the check
InvalidQuantity_AllowsZero(quantity) == ~IsInt(quantity) \/ quantity.value < 0

\* not isinstance(quantity, int) or quantity <= 0
InvalidQuantity(quantity) == ~IsInt(quantity) \/ quantity.value <= 0

\* current_quantity + quantity > product_info.stock
InsufficientStock(current_quantity, quantity, stock) == current_quantity + quantity > stock

\* MUTANT of Available: the catalog's nominal stock is reported
Available_Nominal(stock, current_quantity) == stock

\* available = product_info.stock - current_quantity
Available(stock, current_quantity) == stock - current_quantity

\* existing_item.quantity if existing_item else 0
CurrentQuantity(items, existing_item) ==
    IF existing_item # 0 THEN items[existing_item].quantity ELSE 0

\* MUTANT of AddLine: the merge adds the units and leaves the stored
\* subtotal as it was
AddLine_StaleSubtotal(items, existing_item, product_info, quantity) ==
    IF existing_item # 0
    THEN [items EXCEPT ![existing_item].quantity = @ + quantity]
    ELSE Append(items, CartItem(product_info.id, product_info.name,
                                product_info.price, quantity))

\* MUTANT of AddLine: every add appends a line
AddLine_AlwaysAppends(items, existing_item, product_info, quantity) ==
    Append(items, CartItem(product_info.id, product_info.name,
                           product_info.price, quantity))

\* the "Add to cart" block: merge into the existing line or append a new one
AddLine(items, existing_item, product_info, quantity) ==
    IF existing_item # 0
    THEN LET new_quantity == items[existing_item].quantity + quantity
         IN  [items EXCEPT ![existing_item].quantity = new_quantity,
                           ![existing_item].subtotal =
                               items[existing_item].unit_price * new_quantity]
    ELSE Append(items, CartItem(product_info.id, product_info.name,
                                product_info.price, quantity))

\* list.remove(item): drop the first element equal to item
ListRemove(items, item) ==
    LET at == CHOOSE i \in 1..Len(items) :
                 items[i] = item /\ \A j \in 1..(i - 1) : items[j] # item
    IN  [i \in 1..(Len(items) - 1) |-> IF i < at THEN items[i] ELSE items[i + 1]]

\* MUTANT of RemovesCompletely: a quantity equal to the line's is treated
\* as a partial removal
RemovesCompletely_Strict(quantity, item) ==
    quantity.type = "NoneType" \/ quantity.value > item.quantity

\* MUTANT of RemovesCompletely: `not quantity` in place of
\* `quantity is None`, so that 0 removes the line
RemovesCompletely_Falsy(quantity, item) ==
    quantity.type = "NoneType" \/ quantity.value = 0 \/ quantity.value >= item.quantity

\* quantity >= item.quantity raises TypeError when quantity is a str
RaisesTypeError(quantity) == quantity.type = "str"

\* name.strip() in find_product_fuzzy raises AttributeError when name is None
RaisesAttributeError(name) == name = None

\* quantity >= n for an int or a float quantity (a float is held in tenths)
AtLeast(quantity, n) ==
    IF quantity.type = "float" THEN quantity.value >= 10 * n ELSE quantity.value >= n

\* quantity is None or quantity >= item.quantity
RemovesCompletely(quantity, item) ==
    quantity.type = "NoneType" \/ AtLeast(quantity, item.quantity)

\* MUTANT of DecreaseLine: the units are taken off and the stored subtotal
\* is left as it was
DecreaseLine_StaleSubtotal(items, at, quantity) ==
    [items EXCEPT ![at].quantity = @ - quantity]

\* the "Remove partially" block
DecreaseLine(items, at, quantity) ==
    LET new_quantity == items[at].quantity - quantity
    IN  [items EXCEPT ![at].quantity = new_quantity,
                      ![at].subtotal = items[at].unit_price * new_quantity]

\* the "Remove partially" block when quantity is a float: item.quantity
\* becomes the float item.quantity - quantity.  The line then holds its
\* quantity in tenths of a unit, under quantity_tenths in place of quantity.
DecreaseLineFloat(items, at, tenths) ==
    LET new_tenths == 10 * items[at].quantity - tenths
    IN  [i \in 1..Len(items) |->
            IF i # at THEN items[i]
            ELSE [product_id |-> items[at].product_id,
                  name |-> items[at].name,
                  unit_price |-> items[at].unit_price,
                  quantity_tenths |-> new_tenths,
                  subtotal |-> (items[at].unit_price * new_tenths) \div 10]]

\* item.quantity -= quantity; item.subtotal = item.unit_price * item.quantity
PartlyRemoved(items, at, quantity) ==
    IF quantity.type = "float"
    THEN DecreaseLineFloat(items, at, quantity.value)
    ELSE DecreaseLine(items, at, quantity.value)

\* a number as a result dict shows it: an int by its value, a float as such
Number(quantity) == IF quantity.type = "float" THEN quantity ELSE quantity.value

\* item.quantity of a cart line
LineQuantity(line) ==
    IF "quantity" \in DOMAIN line THEN line.quantity ELSE PyFloat(line.quantity_tenths)

\* every line of the cart holds a whole number of units
WholeUnits(c) == \A i \in 1..Len(c.items) : "quantity" \in DOMAIN c.items[i]

(***************************************************************************)
(* The tools of agent.py.  Each operator gives the cart after the call and *)
(* the dict returned; message texts are kept as their f-string template    *)
(* (without the emoji) together with the values formatted into it.         *)
(* `found` is the value of find_product_fuzzy(product).                    *)
(***************************************************************************)
\* MUTANT of ProductNotFound: the not-found answer of search_product_by_name
ProductNotFound_AsSearch(product) ==
    [status |-> "not_found",
     message |-> [text |-> "Couldn't find '{product_name}'.", product |-> product],
     suggestions |-> [i \in 1..3 |-> PRODUCTS_DB[i].name]]

\* the dict add_to_cart returns when find_product_fuzzy finds nothing
ProductNotFound(product) ==
    [status |-> "error",
     message |-> [text |-> "Couldn't find product '{product}'. Use 'search_product' to see options.",
                  product |-> product]]

add_to_cart(c, found, product, quantity) ==
    IF InvalidQuantity(quantity)
    THEN [cart |-> c,
          result |-> [status |-> "error",
                      message |-> [text |-> "Quantity must be a positive integer."]]]
    ELSE
    IF RaisesAttributeError(product)
    THEN [cart |-> c, raised |-> "AttributeError"]
    ELSE
    IF found = <<>>
    THEN [cart |-> c, result |-> ProductNotFound(product)]
    ELSE
    LET product_info == found[2]
        existing_item == get_cart_item_by_product(c.items, product_info.id)
        current_quantity == CurrentQuantity(c.items, existing_item)
    IN
    IF InsufficientStock(current_quantity, quantity.value, product_info.stock)
    THEN LET available == Available(product_info.stock, current_quantity)
         IN  [cart |-> c,
              result |-> [status |-> "error",
                          message |-> [text |-> "Insufficient stock. Only {available} units available for '{name}'.",
                                       available |-> available,
                                       name |-> product_info.name],
                          current_stock |-> product_info.stock,
                          in_cart |-> current_quantity,
                          available |-> available]]
    ELSE
    LET items == AddLine(c.items, existing_item, product_info, quantity.value)
        total_items == SumQuantity(items)
        subtotal == SumSubtotal(items)
    IN  [cart |-> [c EXCEPT !.items = items],
         result |-> [status |-> "success",
                     message |-> [text |-> "Added {quantity}x '{name}' to cart.",
                                  quantity |-> quantity.value,
                                  name |-> product_info.name],
                     added_product |-> [name |-> product_info.name,
                                        quantity |-> quantity.value,
                                        unit_price |-> format_price(product_info.price),
                                        subtotal |-> format_price(product_info.price * quantity.value)],
                     cart_summary |-> [total_items |-> total_items,
                                       subtotal |-> format_price(subtotal),
                                       free_shipping |-> subtotal >= SHIPPING_THRESHOLD]]]

\* the per-line detail of view_cart
ItemsDetail(items) ==
    [i \in 1..Len(items) |->
        [name |-> items[i].name,
         quantity |-> items[i].quantity,
         unit_price |-> format_price(items[i].unit_price),
         subtotal |-> format_price(items[i].subtotal)]]

view_cart(c) ==
    IF c.items = <<>>
    THEN [cart |-> c,
          result |-> [status |-> "empty",
                      message |-> [text |-> "Cart is empty."],
                      suggestion |-> "You can search for available products or ask for recommendations."]]
    ELSE
    LET subtotal == get_subtotal(c)
        discount == get_discount_amount(c)
        tax == get_tax(c)
        shipping == get_shipping(c)
        total == get_total(c)
        summary == [status |-> "success",
                    items |-> ItemsDetail(c.items),
                    total_products |-> Len(c.items),
                    total_units |-> SumQuantity(c.items),
                    calculations |->
                        [subtotal |-> format_price(subtotal),
                         discount |-> IF discount > 0 THEN <<format_price(discount)>> ELSE <<>>,
                         discount_code |-> c.discount_code,
                         taxes |-> format_price(tax),
                         shipping |-> format_price(shipping),
                         free_shipping |-> shipping = 0,
                         total |-> format_price(total)]]
        savings == IF discount > 0
                   THEN [savings_message |-> [text |-> "You're saving {discount}!",
                                              discount |-> format_price(discount)]]
                   ELSE <<>>
        shipmsg == IF shipping = 0 /\ subtotal >= SHIPPING_THRESHOLD
                   THEN [shipping_message |-> "Free shipping included!"]
                   ELSE <<>>
    IN  [cart |-> c, result |-> summary @@ savings @@ shipmsg]

\* MUTANT of CartIsEmpty: the empty-cart test is skipped
CartIsEmpty_Never(c) == FALSE

\* not cart.items
CartIsEmpty(c) == c.items = <<>>

\* MUTANT of apply_discount: the code is assigned before it is validated
apply_discount_AssignsFirst(c, code) ==
    IF CartIsEmpty(c)
    THEN [cart |-> c,
          result |-> [status |-> "error",
                      message |-> [text |-> "Cart is empty. Add products before applying discounts."]]]
    ELSE
    LET code_upper == upper(strip(code))
        applied == [c EXCEPT !.discount_code = code_upper]
    IN
    IF ~InDiscountCodes(code_upper)
    THEN [cart |-> applied,
          result |-> [status |-> "error",
                      message |-> [text |-> "Code '{code}' is not valid.", code |-> code],
                      available_codes |-> DiscountKeys]]
    ELSE
    LET discount_pct == DiscountRate(code_upper)
        discount_amt == get_discount_amount(applied)
    IN  [cart |-> applied,
         result |-> [status |-> "success",
                     message |-> [text |-> "Code '{code_upper}' applied: {pct}% discount",
                                  code_upper |-> code_upper, pct |-> discount_pct],
                     discount |-> [percentage |-> discount_pct,
                                   amount |-> format_price(discount_amt),
                                   original_subtotal |-> format_price(get_subtotal(applied)),
                                   total_with_discount |-> format_price(get_total(applied))]]]

apply_discount(c, code) ==
    IF CartIsEmpty(c)
    THEN [cart |-> c,
          result |-> [status |-> "error",
                      message |-> [text |-> "Cart is empty. Add products before applying discounts."]]]
    ELSE
    LET code_upper == upper(strip(code)) IN
    IF ~InDiscountCodes(code_upper)
    THEN [cart |-> c,
          result |-> [status |-> "error",
                      message |-> [text |-> "Code '{code}' is not valid.", code |-> code],
                      available_codes |-> DiscountKeys]]
    ELSE
    LET applied == [c EXCEPT !.discount_code = code_upper]
        discount_pct == DiscountRate(code_upper)
        discount_amt == get_discount_amount(applied)
    IN  [cart |-> applied,
         result |-> [status |-> "success",
                     message |-> [text |-> "Code '{code_upper}' applied: {pct}% discount",
                                  code_upper |-> code_upper, pct |-> discount_pct],
                     discount |-> [percentage |-> discount_pct,
                                   amount |-> format_price(discount_amt),
                                   original_subtotal |-> format_price(get_subtotal(applied)),
                                   total_with_discount |-> format_price(get_total(applied))]]]

\* MUTANT of remove_from_cart: removing the last line resets the discount code
remove_from_cart_ResetsCode(c, found, product, quantity) ==
    IF RaisesAttributeError(product)
    THEN [cart |-> c, raised |-> "AttributeError"]
    ELSE
    IF found = <<>>
    THEN [cart |-> c,
          result |-> [status |-> "error",
                      message |-> [text |-> "Product '{product}' not found in cart.",
                                   product |-> product]]]
    ELSE
    LET product_info == found[2]
        item == get_cart_item_by_product(c.items, product_info.id)
    IN
    IF item = 0
    THEN [cart |-> c,
          result |-> [status |-> "error",
                      message |-> [text |-> "'{name}' is not in the cart.",
                                   name |-> product_info.name]]]
    ELSE IF RaisesTypeError(quantity)
    THEN [cart |-> c, raised |-> "TypeError"]
    ELSE IF RemovesCompletely(quantity, c.items[item])
    THEN [cart |-> [items |-> ListRemove(c.items, c.items[item]),
                    discount_code |-> IF Len(c.items) = 1 THEN None ELSE c.discount_code],
          result |-> [status |-> "success",
                      message |-> [text |-> "Completely removed '{name}' from cart.",
                                   name |-> product_info.name],
                      removed_product |-> product_info.name,
                      removed_quantity |-> c.items[item].quantity]]
    ELSE IF quantity.value > 0
    THEN LET items == PartlyRemoved(c.items, item, quantity)
         IN  [cart |-> [c EXCEPT !.items = items],
              result |-> [status |-> "success",
                          message |-> [text |-> "Removed {quantity} units of '{name}'.",
                                       quantity |-> Number(quantity),
                                       name |-> product_info.name],
                          removed_quantity |-> Number(quantity),
                          remaining_quantity |-> LineQuantity(items[item])]]
    ELSE [cart |-> c,
          result |-> [status |-> "error",
                      message |-> [text |-> "Quantity must be greater than zero."]]]

remove_from_cart(c, found, product, quantity) ==
    IF RaisesAttributeError(product)
    THEN [cart |-> c, raised |-> "AttributeError"]
    ELSE
    IF found = <<>>
    THEN [cart |-> c,
          result |-> [status |-> "error",
                      message |-> [text |-> "Product '{product}' not found in cart.",
                                   product |-> product]]]
    ELSE
    LET product_info == found[2]
        item == get_cart_item_by_product(c.items, product_info.id)
    IN
    IF item = 0
    THEN [cart |-> c,
          result |-> [status |-> "error",
                      message |-> [text |-> "'{name}' is not in the cart.",
                                   name |-> product_info.name]]]
    ELSE IF RaisesTypeError(quantity)
    THEN [cart |-> c, raised |-> "TypeError"]
    ELSE IF RemovesCompletely(quantity, c.items[item])
    THEN [cart |-> [c EXCEPT !.items = ListRemove(c.items, c.items[item])],
          result |-> [status |-> "success",
                      message |-> [text |-> "Completely removed '{name}' from cart.",
                                   name |-> product_info.name],
                      removed_product |-> product_info.name,
                      removed_quantity |-> c.items[item].quantity]]
    ELSE IF quantity.value > 0
    THEN LET items == PartlyRemoved(c.items, item, quantity)
         IN  [cart |-> [c EXCEPT !.items = items],
              result |-> [status |-> "success",
                          message |-> [text |-> "Removed {quantity} units of '{name}'.",
                                       quantity |-> Number(quantity),
                                       name |-> product_info.name],
                          removed_quantity |-> Number(quantity),
                          remaining_quantity |-> LineQuantity(items[item])]]
    ELSE [cart |-> c,
          result |-> [status |-> "error",
                      message |-> [text |-> "Quantity must be greater than zero."]]]

\* MUTANT of clear_cart: the discount code survives the clearing
clear_cart_KeepsCode(c) ==
    [cart |-> [c EXCEPT !.items = <<>>],
     result |-> [status |-> "success",
                 message |-> [text |-> "Cart cleared successfully."],
                 removed_products |-> Len(c.items),
                 removed_units |-> SumQuantity(c.items)]]

clear_cart(c) ==
    LET items_count == Len(c.items)
        units_count == SumQuantity(c.items)
    IN  [cart |-> [items |-> <<>>, discount_code |-> None],
         result |-> [status |-> "success",
                     message |-> [text |-> "Cart cleared successfully."],
                     removed_products |-> items_count,
                     removed_units |-> units_count]]

\* the per-line summary of calculate_total
ProductSummary(items) ==
    [i \in 1..Len(items) |->
        [product |-> items[i].name,
         quantity |-> items[i].quantity,
         unit_price |-> format_price(items[i].unit_price),
         subtotal |-> format_price(items[i].subtotal)]]

\* the dict calculate_total returns
TotalBreakdown(c) ==
    IF c.items = <<>>
    THEN [status |-> "empty",
          message |-> [text |-> "Cart is empty."],
          total |-> format_price(0)]
    ELSE
    LET subtotal == get_subtotal(c)
        discount == get_discount_amount(c)
        tax == get_tax(c)
        shipping == get_shipping(c)
        total == get_total(c)
        breakdown ==
            [status |-> "success",
             product_summary |-> ProductSummary(c.items),
             subtotal |-> format_price(subtotal),
             discount |-> IF discount > 0
                          THEN <<[code |-> c.discount_code, amount |-> format_price(discount)]>>
                          ELSE <<>>,
             taxes |-> [rate |-> TAX_RATE, amount |-> format_price(tax)],
             shipping |-> [cost |-> format_price(shipping),
                           free |-> shipping = 0,
                           free_threshold |-> format_price(SHIPPING_THRESHOLD)],
             total |-> format_price(total),
             message |-> [text |-> "Total to pay: {total}", total |-> format_price(total)]]
        savings == (IF discount > 0 THEN <<"Discount">> ELSE <<>>)
                   \o (IF shipping = 0 /\ subtotal >= SHIPPING_THRESHOLD
                       THEN <<"Free shipping">> ELSE <<>>)
    IN  IF savings # <<>>
        THEN breakdown @@
             [total_savings |->
                 [items |-> savings,
                  total |-> format_price(discount +
                              (IF shipping = 0 THEN SHIPPING_COST ELSE 0))]]
        ELSE breakdown

\* MUTANT of calculate_total: the discount code is used up by the call
calculate_total_UsesUpCode(c) ==
    [cart |-> [c EXCEPT !.discount_code = None], result |-> TotalBreakdown(c)]

\* calculate_total reads the cart and assigns nothing
calculate_total(c) == [cart |-> c, result |-> TotalBreakdown(c)]

(***************************************************************************)
(* The tools of agent.py that do not touch the cart                        *)
(***************************************************************************)
\* the suggestions of a failed search: the first three products of the
\* catalog, each with its price
Suggestions(db) ==
    [i \in 1..(IF Len(db) < 3 THEN Len(db) ELSE 3) |->
        [name |-> db[i].name, price |-> format_price(db[i].price)]]

\* search_product_by_name(product_name): the name is appended to
\* search_history before it is looked up
search_product_by_name(c, history, db, found, product_name) ==
    LET recorded == Append(history, product_name) IN
    IF found # <<>>
    THEN LET product == found[2] IN
         [cart |-> c,
          search_history |-> recorded,
          result |-> [status |-> "success",
                      product |-> [id |-> product.id,
                                   name |-> product.name,
                                   price |-> product.price,
                                   formatted_price |-> format_price(product.price),
                                   stock |-> product.stock,
                                   category |-> product.category,
                                   rating |-> [rating |-> product.rating,
                                               reviews |-> product.reviews],
                                   available |-> product.stock > 0],
                      message |-> [text |-> "Product '{name}' found.",
                                   name |-> product.name]]]
    ELSE [cart |-> c,
          search_history |-> recorded,
          result |-> [status |-> "not_found",
                      message |-> [text |-> "Couldn't find '{product_name}'.",
                                   product_name |-> product_name],
                      suggestions |-> Suggestions(db),
                      suggestions_text |-> Suggestions(db)]]

\* `if category:` is false for None and for the empty string
Truthy(category) == category # None /\ category # <<>>

\* [p for p in products if p.category.lower() == category.lower()]
InCategory(db, category) ==
    LET Matches(p) == lower(p.category) = lower(category)
    IN  SelectSeq(db, Matches)

\* MUTANT of KeyLess: the sort key is the review count alone
KeyLess_ByReviews(p, q) == p.reviews < q.reviews

\* (p.rating, p.reviews) < (q.rating, q.reviews)
KeyLess(p, q) ==
    p.rating < q.rating \/ (p.rating = q.rating /\ p.reviews < q.reviews)

\* products.sort(key=lambda p: (p.rating, p.reviews), reverse=True): the
\* sort is stable, equal keys keep their order
RECURSIVE SortByRating(_)
SortByRating(products) ==
    IF products = <<>> THEN <<>>
    ELSE LET best == CHOOSE i \in 1..Len(products) :
                        /\ \A j \in 1..Len(products) : ~KeyLess(products[i], products[j])
                        /\ \A j \in 1..(i - 1) : KeyLess(products[j], products[i])
             rest == [j \in 1..(Len(products) - 1) |->
                         IF j < best THEN products[j] ELSE products[j + 1]]
         IN  <<products[best]>> \o SortByRating(rest)

\* products[:3]
Top3(products) ==
    SubSeq(products, 1, IF Len(products) < 3 THEN Len(products) ELSE 3)

\* list(set(p.category for p in PRODUCTS_DB.values())): the order of a set
\* of str is not fixed, the model keeps the set
AvailableCategories(db) == {db[i].category : i \in 1..Len(db)}

CategoryAll == <<"A", "l", "l">>

\* recommend_products(category)
recommend_products(c, db, category) ==
    LET products == IF Truthy(category) THEN InCategory(db, category) ELSE db IN
    IF Truthy(category) /\ products = <<>>
    THEN [cart |-> c,
          result |-> [status |-> "error",
                      message |-> [text |-> "No products in category '{category}'.",
                                   category |-> category],
                      available_categories |-> AvailableCategories(db)]]
    ELSE
    LET top == Top3(SortByRating(products))
        recommendations ==
            [i \in 1..Len(top) |->
                [name |-> top[i].name,
                 price |-> format_price(top[i].price),
                 rating |-> top[i].rating,
                 category |-> top[i].category,
                 available |-> top[i].stock > 0]]
    IN  [cart |-> c,
         result |-> [status |-> "success",
                     category |-> IF Truthy(category) THEN category ELSE CategoryAll,
                     recommendations |-> recommendations,
                     message |-> [text |-> "Top {n} recommended products",
                                  n |-> Len(recommendations)]]]

\* search_history[-5:]
Last5(history) ==
    IF Len(history) <= 5 THEN history
    ELSE SubSeq(history, Len(history) - 4, Len(history))

\* MUTANT of show_search_history: the empty answer has no message
show_search_history_NoMessage(c, history) ==
    IF history = <<>>
    THEN [cart |-> c, result |-> [status |-> "empty"]]
    ELSE [cart |-> c,
          result |-> [status |-> "success",
                      history |-> Last5(history),
                      total_searches |-> Len(history)]]

\* show_search_history()
show_search_history(c, history) ==
    IF history = <<>>
    THEN [cart |-> c,
          result |-> [status |-> "empty",
                      message |-> [text |-> "No recent searches."]]]
    ELSE [cart |-> c,
          result |-> [status |-> "success",
                      history |-> Last5(history),
                      total_searches |-> Len(history)]]

(***************************************************************************)
(* The tool server ecommerce_mcp_server.py: call_mcp_tool(name, arguments) *)
(* runs one branch per tool name and answers the JSON text of the dict     *)
(* `result`; the operators below give, per branch, the cart afterwards and *)
(* that dict.  `get(arguments, key, default)` is arguments.get(key,        *)
(* default).                                                               *)
(***************************************************************************)
get(arguments, key, default) ==
    IF key \in DOMAIN arguments THEN arguments[key] ELSE default

\* the branch name == "add_to_cart"
mcp_add_to_cart(c, found, arguments) ==
    LET product == get(arguments, "product", <<>>)
        quantity == get(arguments, "quantity", PyInt(1))
    IN
    IF InvalidQuantity(quantity)
    THEN [cart |-> c,
          result |-> [status |-> "error",
                      message |-> [text |-> "Quantity must be a positive integer."]]]
    ELSE IF RaisesAttributeError(product)
    THEN [cart |-> c, raised |-> "AttributeError"]
    ELSE IF found = <<>>
    THEN [cart |-> c,
          result |-> [status |-> "error",
                      message |-> [text |-> "Couldn't find product '{product}'.",
                                   product |-> product]]]
    ELSE
    LET product_info == found[2]
        existing_item == get_cart_item_by_product(c.items, product_info.id)
        current_quantity == CurrentQuantity(c.items, existing_item)
    IN
    IF InsufficientStock(current_quantity, quantity.value, product_info.stock)
    THEN LET available == Available(product_info.stock, current_quantity)
         IN  [cart |-> c,
              result |-> [status |-> "error",
                          message |-> [text |-> "Insufficient stock. Only {available} units available.",
                                       available |-> available]]]
    ELSE
    LET items == AddLine(c.items, existing_item, product_info, quantity.value)
        total_items == SumQuantity(items)
        subtotal == SumSubtotal(items)
    IN  [cart |-> [c EXCEPT !.items = items],
         result |-> [status |-> "success",
                     message |-> [text |-> "Added {quantity}x '{name}' to cart.",
                                  quantity |-> quantity.value,
                                  name |-> product_info.name],
                     cart_summary |-> [total_items |-> total_items,
                                       subtotal |-> format_price(subtotal),
                                       free_shipping |-> subtotal >= SHIPPING_THRESHOLD]]]

\* the branch name == "view_cart"
mcp_view_cart(c) ==
    IF c.items = <<>>
    THEN [cart |-> c,
          result |-> [status |-> "empty", message |-> [text |-> "Cart is empty."]]]
    ELSE
    LET subtotal == get_subtotal(c)
        discount == get_discount_amount(c)
        tax == get_tax(c)
        shipping == get_shipping(c)
        total == get_total(c)
    IN  [cart |-> c,
         result |-> [status |-> "success",
                     items |-> ItemsDetail(c.items),
                     calculations |->
                         [subtotal |-> format_price(subtotal),
                          discount |-> IF discount > 0 THEN <<format_price(discount)>> ELSE <<>>,
                          discount_code |-> c.discount_code,
                          tax |-> format_price(tax),
                          shipping |-> format_price(shipping),
                          total |-> format_price(total)]]]

\* the branch name == "apply_discount"
mcp_apply_discount(c, arguments) ==
    LET code == upper(strip(get(arguments, "code", <<>>))) IN
    IF CartIsEmpty(c)
    THEN [cart |-> c,
          result |-> [status |-> "error", message |-> [text |-> "Cart is empty."]]]
    ELSE IF ~InDiscountCodes(code)
    THEN [cart |-> c,
          result |-> [status |-> "error",
                      message |-> [text |-> "Code '{code}' is not valid.", code |-> code],
                      available_codes |-> DiscountKeys]]
    ELSE
    LET applied == [c EXCEPT !.discount_code = code]
        discount_pct == DiscountRate(code)
        discount_amt == get_discount_amount(applied)
    IN  [cart |-> applied,
         result |-> [status |-> "success",
                     message |-> [text |-> "Code '{code}' applied: {pct}% discount",
                                  code |-> code, pct |-> discount_pct],
                     discount |-> [percentage |-> discount_pct,
                                   amount |-> format_price(discount_amt),
                                   total_with_discount |-> format_price(get_total(applied))]]]

\* the branch name == "remove_from_cart"
mcp_remove_from_cart(c, found, arguments) ==
    LET product == get(arguments, "product", <<>>)
        quantity == get(arguments, "quantity", PyNone)
    IN
    IF RaisesAttributeError(product)
    THEN [cart |-> c, raised |-> "AttributeError"]
    ELSE
    IF found = <<>>
    THEN [cart |-> c,
          result |-> [status |-> "error",
                      message |-> [text |-> "Product '{product}' not found.",
                                   product |-> product]]]
    ELSE
    LET product_info == found[2]
        item == get_cart_item_by_product(c.items, product_info.id)
    IN
    IF item = 0
    THEN [cart |-> c,
          result |-> [status |-> "error",
                      message |-> [text |-> "'{name}' is not in cart.",
                                   name |-> product_info.name]]]
    ELSE IF RaisesTypeError(quantity)
    THEN [cart |-> c, raised |-> "TypeError"]
    ELSE IF RemovesCompletely(quantity, c.items[item])
    THEN [cart |-> [c EXCEPT !.items = ListRemove(c.items, c.items[item])],
          result |-> [status |-> "success",
                      message |-> [text |-> "Removed '{name}' from cart.",
                                   name |-> product_info.name]]]
    ELSE IF quantity.value > 0
    THEN [cart |-> [c EXCEPT !.items = PartlyRemoved(c.items, item, quantity)],
          result |-> [status |-> "success",
                      message |-> [text |-> "Removed {quantity} units of '{name}'.",
                                   quantity |-> Number(quantity),
                                   name |-> product_info.name]]]
    ELSE [cart |-> c,
          result |-> [status |-> "error",
                      message |-> [text |-> "Quantity must be greater than zero."]]]

\* the branch name == "clear_cart"
mcp_clear_cart(c) ==
    LET items_count == Len(c.items)
    IN  [cart |-> [items |-> <<>>, discount_code |-> None],
         result |-> [status |-> "success",
                     message |-> [text |-> "Cart cleared successfully."],
                     products_removed |-> items_count]]

\* the branch name == "calculate_total"
mcp_calculate_total(c) ==
    IF c.items = <<>>
    THEN [cart |-> c,
          result |-> [status |-> "empty",
                      message |-> [text |-> "Cart is empty."],
                      total |-> format_price(0)]]
    ELSE [cart |-> c,
          result |-> [status |-> "success",
                      subtotal |-> format_price(get_subtotal(c)),
                      discount |-> format_price(get_discount_amount(c)),
                      tax |-> format_price(get_tax(c)),
                      shipping |-> format_price(get_shipping(c)),
                      total |-> format_price(get_total(c)),
                      message |-> [text |-> "Total to pay: {total}",
                                   total |-> format_price(get_total(c))]]]

\* the branch name == "search_product"
mcp_search_product(c, history, db, found, arguments) ==
    LET product_name == get(arguments, "product_name", <<>>)
        recorded == Append(history, product_name)
    IN
    IF found # <<>>
    THEN LET product == found[2] IN
         [cart |-> c,
          search_history |-> recorded,
          result |-> [status |-> "success",
                      product |-> [id |-> product.id,
                                   name |-> product.name,
                                   price |-> product.price,
                                   stock |-> product.stock,
                                   category |-> product.category,
                                   rating |-> product.rating,
                                   reviews |-> product.reviews],
                      formatted_price |-> format_price(product.price),
                      available |-> product.stock > 0,
                      message |-> [text |-> "Product '{name}' found.",
                                   name |-> product.name]]]
    ELSE [cart |-> c,
          search_history |-> recorded,
          result |-> [status |-> "not_found",
                      message |-> [text |-> "Couldn't find '{product_name}'.",
                                   product_name |-> product_name],
                      suggestions |-> Suggestions(db)]]

\* the recommendations list of the branch name == "recommend_products"
McpRecommendations(products) ==
    LET top == Top3(SortByRating(products))
    IN  [i \in 1..Len(top) |->
            [name |-> top[i].name,
             price |-> format_price(top[i].price),
             rating |-> top[i].rating,
             category |-> top[i].category]]

\* the branch name == "recommend_products"
mcp_recommend_products(c, db, arguments) ==
    LET category == get(arguments, "category", None) IN
    IF Truthy(category)
    THEN LET products == InCategory(db, category) IN
         IF products = <<>>
         THEN [cart |-> c,
               result |-> [status |-> "error",
                           message |-> [text |-> "No products in category '{category}'.",
                                        category |-> category],
                           available_categories |-> AvailableCategories(db)]]
         ELSE [cart |-> c,
               result |-> [status |-> "success",
                           category |-> category,
                           recommendations |-> McpRecommendations(products)]]
    ELSE [cart |-> c,
          result |-> [status |-> "success",
                      recommendations |-> McpRecommendations(db)]]

\* MUTANT of mcp_show_history: the history is emptied once it was shown
mcp_show_history_Consumes(c, history) ==
    IF history = <<>>
    THEN [cart |-> c,
          result |-> [status |-> "empty",
                      message |-> [text |-> "No recent searches."]]]
    ELSE [cart |-> c,
          search_history |-> <<>>,
          result |-> [status |-> "success",
                      history |-> Last5(history),
                      total_searches |-> Len(history)]]

\* the branch name == "show_history"
mcp_show_history(c, history) ==
    IF history = <<>>
    THEN [cart |-> c,
          result |-> [status |-> "empty",
                      message |-> [text |-> "No recent searches."]]]
    ELSE [cart |-> c,
          result |-> [status |-> "success",
                      history |-> Last5(history),
                      total_searches |-> Len(history)]]

\* find_product_fuzzy(name) from its tabulation: the key found and the
\* Product that db holds for it; None is not looked up (the call raises)
Resolve(table, db, name) ==
    IF name = None \/ table[name] = <<>> THEN <<>>
    ELSE <<table[name][1], Lookup(db, table[name][1])>>

\* the branches of call_mcp_tool, inside its try block
McpBranch(c, history, db, table, name, arguments) ==
    CASE name = "search_product" ->
            mcp_search_product(c, history, db,
                Resolve(table, db, get(arguments, "product_name", <<>>)), arguments)
      [] name = "add_to_cart" ->
            mcp_add_to_cart(c, Resolve(table, db, get(arguments, "product", <<>>)), arguments)
      [] name = "view_cart" -> mcp_view_cart(c)
      [] name = "apply_discount" -> mcp_apply_discount(c, arguments)
      [] name = "remove_from_cart" ->
            mcp_remove_from_cart(c, Resolve(table, db, get(arguments, "product", <<>>)), arguments)
      [] name = "clear_cart" -> mcp_clear_cart(c)
      [] name = "calculate_total" -> mcp_calculate_total(c)
      [] name = "recommend_products" -> mcp_recommend_products(c, db, arguments)
      [] name = "show_history" -> mcp_show_history(c, history)
      [] OTHER -> [cart |-> c,
                   result |-> [status |-> "error",
                               message |-> [text |-> "Tool '{name}' not implemented.",
                                            name |-> name]]]

\* except Exception as e: the answer is the dict {"error": ...}; what the
\* branch assigned before it raised stays assigned
ExceptHandler(name, r) ==
    [field \in (DOMAIN r \ {"raised"}) \cup {"result"} |->
        IF field = "result"
        THEN [error |-> [text |-> "Failed to execute tool '{name}': {e}",
                         name |-> name, e |-> r.raised]]
        ELSE r[field]]

\* call_mcp_tool(name, arguments); table is find_product_fuzzy tabulated
call_mcp_tool(c, history, db, table, name, arguments) ==
    LET r == McpBranch(c, history, db, table, name, arguments)
    IN  IF "raised" \in DOMAIN r THEN ExceptHandler(name, r) ELSE r

\* the calls made to the server: tool name and arguments dict
McpCalls ==
    {[tool |-> "add_to_cart", arguments |-> a] : a \in AddArguments}
    \cup {[tool |-> "remove_from_cart", arguments |-> a] : a \in RemoveArguments}
    \cup {[tool |-> "apply_discount", arguments |-> [code |-> k]] : k \in CodeArgs}
    \cup {[tool |-> t, arguments |-> <<>>] : t \in {"view_cart", "clear_cart", "calculate_total"}}

(***************************************************************************)
(* The calls of the runs that use every tool (ToolSpec): fewer cart calls, *)
(* the searches, and arguments of the wrong type                           *)
(***************************************************************************)
\* the str "2" where a quantity is expected
QuantityStr == PyStr(<<"2">>)
\* more units than the monitor's stock
OverStock == PyInt(PRODUCTS_DB[3].stock + 1)
\* the float 1.5 where a quantity is expected
QuantityFloat == PyFloat(15)

ToolAddArguments ==
    {[product |-> p] : p \in {QMonitor, QMouse, QLeptop, None}}
    \cup {[product |-> QMonitor, quantity |-> q] : q \in {PyInt(0), QuantityStr, OverStock}}
ToolRemoveArguments ==
    {[product |-> p] : p \in {QMonitor, QLeptop}}
    \cup {[product |-> QMonitor, quantity |-> q] :
             q \in {PyInt(1), PyInt(0), QuantityStr, QuantityFloat}}
ToolCodeArgs == {SAVE20, <<"B", "O", "G", "U", "S">>}

\* recommend_products(category): no category, the empty string, one that
\* two products have (in another case), one that no product has
CategoryArgs ==
    {None,
     <<>>,
     <<"p", "e", "r", "i", "p", "h", "e", "r", "a", "l", "s">>,
     <<"T", "o", "y", "s">>}

ToolMcpCalls ==
    {[tool |-> "add_to_cart", arguments |-> a] : a \in ToolAddArguments}
    \cup {[tool |-> "remove_from_cart", arguments |-> a] : a \in ToolRemoveArguments}
    \cup {[tool |-> "apply_discount", arguments |-> [code |-> k]] : k \in ToolCodeArgs}
    \cup {[tool |-> "search_product", arguments |-> [product_name |-> q]] : q \in SearchArgs}
    \cup {[tool |-> "recommend_products", arguments |-> [category |-> k]] :
             k \in CategoryArgs \ {None}}
    \cup {[tool |-> t, arguments |-> <<>>] :
             t \in {"view_cart", "clear_cart", "calculate_total",
                    "recommend_products", "show_history", "checkout"}}

(***************************************************************************)
(* State machine                                                           *)
(***************************************************************************)
\* the model makes no call that would leave more than cap units in the cart,
\* and follows a run no further once a line holds a fraction of a unit (the
\* guard WholeUnits(cart) of every action): its amounts are whole units
Within(r, cap) == WholeUnits(r.cart) => SumQuantity(r.cart.items) <= cap
WithinBound(r) == Within(r, MaxCartUnits)

\* the variables of the programs that are not running
NoPair == shopping_cart = EmptyCart /\ mcp_result = <<>>
NoWebhook ==
    /\ message_cache = <<>>
    /\ processing_messages = {}
    /\ background_tasks = <<>>
    /\ clock = 0
    /\ accepted_at = <<>>
NoWorkflow ==
    /\ session_state = <<>>
    /\ running = <<>>
    /\ times_looped = 0
    /\ escalate = FALSE

Init ==
    /\ program \in Programs
    /\ cart = EmptyCart
    /\ call = [tool |-> "", arguments |-> <<>>]
    /\ result = <<>>
    /\ found_by = Tabulated(program)
    /\ search_history = <<>>
    /\ products_db = Catalog(program)
    /\ NoPair /\ NoWebhook /\ NoWorkflow

\* find_product_fuzzy(name) on the running program's PRODUCTS_DB: the key
\* found and the Product the dict holds for it now
Found(name) == Resolve(found_by, products_db, name)

\* MUTANT of StockAfterAdd: the units added are taken off the stock
StockAfterAdd_Decrements(product_info, quantity) == product_info.stock - quantity

\* add_to_cart reads product_info.stock and assigns nothing to the Product
StockAfterAdd(product_info, quantity) == product_info.stock

\* PRODUCTS_DB after add_to_cart returned r for the product found
AfterAdd(db, found, quantity, r) ==
    IF "result" \in DOMAIN r /\ "status" \in DOMAIN r.result /\ r.result.status = "success"
    THEN [i \in 1..Len(db) |->
            IF db[i].id = found[2].id
            THEN [db[i] EXCEPT !.stock = StockAfterAdd(db[i], quantity.value)]
            ELSE db[i]]
    ELSE db

\* the effect of a tool call: the cart it leaves, the dict it returns (or
\* the exception it raises), and search_history and PRODUCTS_DB where the
\* call assigns to them
Returns(tool, arguments, r) ==
    /\ cart' = r.cart
    /\ call' = [tool |-> tool, arguments |-> arguments]
    /\ result' = IF "raised" \in DOMAIN r THEN [raised |-> r.raised] ELSE r.result
    /\ search_history' = IF "search_history" \in DOMAIN r
                         THEN r.search_history ELSE search_history
    /\ products_db' = IF "products_db" \in DOMAIN r THEN r.products_db ELSE products_db
    /\ UNCHANGED <<program, found_by, pairVars, webhookVars, workflowVars>>

AddToCartWith(Arguments, cap) ==
    /\ program = "agent"
    /\ WholeUnits(cart)
    /\ \E arguments \in Arguments :
          LET quantity == IF "quantity" \in DOMAIN arguments
                          THEN arguments.quantity ELSE PyInt(1)
          IN  \E found \in {Found(arguments.product)} :
              \E r \in {add_to_cart(cart, found, arguments.product, quantity)} :
              \E db \in {AfterAdd(products_db, found, quantity, r)} :
                 /\ Within(r, cap)
                 /\ Returns("add_to_cart", arguments, [products_db |-> db] @@ r)

AddToCart == AddToCartWith(AddArguments, MaxCartUnits)

ViewCart ==
    /\ program = "agent"
    /\ WholeUnits(cart)
    /\ \E r \in {view_cart(cart)} : Returns("view_cart", <<>>, r)

ApplyDiscountWith(Codes) ==
    /\ program = "agent"
    /\ WholeUnits(cart)
    /\ \E code \in Codes :
       \E r \in {apply_discount(cart, code)} :
          Returns("apply_discount", [code |-> code], r)

ApplyDiscount == ApplyDiscountWith(CodeArgs)

RemoveFromCartWith(Arguments) ==
    /\ program = "agent"
    /\ WholeUnits(cart)
    /\ \E arguments \in Arguments :
          LET quantity == IF "quantity" \in DOMAIN arguments
                          THEN arguments.quantity ELSE PyNone
          IN  \E r \in {remove_from_cart(cart, Found(arguments.product),
                                           arguments.product, quantity)} :
                 Returns("remove_from_cart", arguments, r)

RemoveFromCart == RemoveFromCartWith(RemoveArguments)

ClearCart ==
    /\ program = "agent"
    /\ WholeUnits(cart)
    /\ \E r \in {clear_cart(cart)} : Returns("clear_cart", <<>>, r)

CalculateTotal ==
    /\ program = "agent"
    /\ WholeUnits(cart)
    /\ \E r \in {calculate_total(cart)} : Returns("calculate_total", <<>>, r)

CallMcpToolWith(Calls, cap) ==
    /\ program = "mcp"
    /\ WholeUnits(cart)
    /\ \E request \in Calls :
          \E r \in {call_mcp_tool(cart, search_history, products_db, found_by,
                                   request.tool, request.arguments)} :
          \E db \in {IF request.tool = "add_to_cart"
                      THEN AfterAdd(products_db,
                                    Found(get(request.arguments, "product", <<>>)),
                                    get(request.arguments, "quantity", PyInt(1)), r)
                      ELSE products_db} :
             /\ Within(r, cap)
             /\ "search_history" \in DOMAIN r => Len(r.search_history) <= MaxHistory
             /\ Returns(request.tool, request.arguments, [products_db |-> db] @@ r)

CallMcpTool == CallMcpToolWith(McpCalls, MaxCartUnits)

Next ==
    \/ AddToCart
    \/ ViewCart
    \/ ApplyDiscount
    \/ RemoveFromCart
    \/ ClearCart
    \/ CalculateTotal
    \/ CallMcpTool

Spec == Init /\ [][Next]_vars

(***************************************************************************)
(* ToolSpec: runs in which every tool is called, the cart tools with the   *)
(* few arguments of ToolAddArguments, ToolRemoveArguments and ToolCodeArgs *)
(***************************************************************************)
ToolAddToCart == AddToCartWith(ToolAddArguments, MaxQty)
ToolRemoveFromCart == RemoveFromCartWith(ToolRemoveArguments)
ToolApplyDiscount == ApplyDiscountWith(ToolCodeArgs)

SearchProductByName ==
    /\ program = "agent"
    /\ WholeUnits(cart)
    /\ Len(search_history) < MaxHistory
    /\ \E product_name \in SearchArgs :
       \E r \in {search_product_by_name(cart, search_history, products_db,
                                          Found(product_name), product_name)} :
          Returns("search_product_by_name", [product_name |-> product_name], r)

RecommendProducts ==
    /\ program = "agent"
    /\ WholeUnits(cart)
    /\ \E category \in CategoryArgs :
       \E r \in {recommend_products(cart, products_db, category)} :
          Returns("recommend_products",
                  IF category = None THEN <<>> ELSE [category |-> category], r)

ShowSearchHistory ==
    /\ program = "agent"
    /\ WholeUnits(cart)
    /\ \E r \in {show_search_history(cart, search_history)} :
          Returns("show_search_history", <<>>, r)

ToolCallMcpTool == CallMcpToolWith(ToolMcpCalls, MaxQty)

ToolNext ==
    \/ ToolAddToCart
    \/ ViewCart
    \/ ToolApplyDiscount
    \/ ToolRemoveFromCart
    \/ ClearCart
    \/ CalculateTotal
    \/ SearchProductByName
    \/ RecommendProducts
    \/ ShowSearchHistory
    \/ ToolCallMcpTool

ToolSpec == Init /\ [][ToolNext]_vars

(***************************************************************************)
(* PairSpec: the agent and the tool server run side by side and are given  *)
(* the same calls.  cart, result and products_db are the agent's,          *)
(* shopping_cart and mcp_result the server's; the server's PRODUCTS_DB is  *)
(* MCP_PRODUCTS_DB and found_by holds the tabulation for either catalog.   *)
(***************************************************************************)
\* "7.1 headphones": a key of agent.py's catalog only
QHeadphones == <<"7", ".", "1", " ", "h", "e", "a", "d", "p", "h", "o", "n", "e", "s">>

PairProductArgs == {QMonitor, QKeyboard, QLeptop, QHeadphones}

PairTabulated(prog) ==
    [q \in PairProductArgs |->
        LET found == find_product_fuzzy(Catalog(prog), q)
        IN  IF found = <<>> THEN <<>> ELSE <<found[1]>>]

PairAddArguments ==
    {[product |-> p] : p \in PairProductArgs}
    \cup {[product |-> QMonitor, quantity |-> q] : q \in {PyInt(MaxQty), PyInt(0)}}
PairRemoveArguments ==
    {[product |-> p] : p \in PairProductArgs \ {QHeadphones}}
    \cup {[product |-> QMonitor, quantity |-> q] : q \in {PyInt(1), QuantityStr}}
PairCodeArgs == ToolCodeArgs \cup {<<"w", "e", "l", "c", "o", "m", "e", "1", "0">>}

PairInit ==
    /\ program = "pair"
    /\ cart = EmptyCart
    /\ call = [tool |-> "", arguments |-> <<>>]
    /\ result = <<>>
    /\ found_by = [agent |-> PairTabulated("agent"), mcp |-> PairTabulated("mcp")]
    /\ search_history = <<>>
    /\ products_db = PRODUCTS_DB
    /\ shopping_cart = EmptyCart
    /\ mcp_result = <<>>
    /\ NoWebhook /\ NoWorkflow

\* what a call returned: the dict, or the exception that left the call
Outcome(r) == IF "raised" \in DOMAIN r THEN [raised |-> r.raised] ELSE r.result

\* the same call made to both programs: a is what the agent's tool did, s
\* what call_mcp_tool did
BothReturn(tool, arguments, a, s) ==
    /\ Within(a, MaxQty + 1)
    /\ Within(s, MaxQty + 1)
    /\ cart' = a.cart
    /\ result' = Outcome(a)
    /\ shopping_cart' = s.cart
    /\ mcp_result' = Outcome(s)
    /\ call' = [tool |-> tool, arguments |-> arguments]
    /\ UNCHANGED <<program, found_by, search_history, products_db, webhookVars, workflowVars>>

\* call_mcp_tool(name, arguments) on the server's cart
Server(name, arguments) ==
    call_mcp_tool(shopping_cart, search_history, MCP_PRODUCTS_DB, found_by.mcp,
                  name, arguments)

PairAddToCart ==
    /\ program = "pair"
    /\ \E arguments \in PairAddArguments :
       \E a \in {add_to_cart(cart,
                             Resolve(found_by.agent, products_db, arguments.product),
                             arguments.product,
                             get(arguments, "quantity", PyInt(1)))} :
       \E s \in {Server("add_to_cart", arguments)} :
          BothReturn("add_to_cart", arguments, a, s)

PairRemoveFromCart ==
    /\ program = "pair"
    /\ \E arguments \in PairRemoveArguments :
       \E a \in {remove_from_cart(cart,
                                  Resolve(found_by.agent, products_db, arguments.product),
                                  arguments.product,
                                  get(arguments, "quantity", PyNone))} :
       \E s \in {Server("remove_from_cart", arguments)} :
          BothReturn("remove_from_cart", arguments, a, s)

PairApplyDiscount ==
    /\ program = "pair"
    /\ \E code \in PairCodeArgs :
       \E a \in {apply_discount(cart, code)} :
       \E s \in {Server("apply_discount", [code |-> code])} :
          BothReturn("apply_discount", [code |-> code], a, s)

PairClearCart ==
    /\ program = "pair"
    /\ \E a \in {clear_cart(cart)} :
       \E s \in {Server("clear_cart", <<>>)} :
          BothReturn("clear_cart", <<>>, a, s)

PairCalculateTotal ==
    /\ program = "pair"
    /\ \E a \in {calculate_total(cart)} :
       \E s \in {Server("calculate_total", <<>>)} :
          BothReturn("calculate_total", <<>>, a, s)

PairNext ==
    \/ PairAddToCart
    \/ PairRemoveFromCart
    \/ PairApplyDiscount
    \/ PairClearCart
    \/ PairCalculateTotal

PairSpec == PairInit /\ [][PairNext]_vars

(***************************************************************************)
(* WebhookSpec: the WhatsApp relay Deploy/whatsapp_test/app.py.  POST      *)
(* /webhook (receive) runs without interruption after its one await, and   *)
(* process_message_async awaits nothing, so each is one step.  Texts, ids, *)
(* senders and timestamps are sequences of characters; a JSON value that   *)
(* may be a string or a number is a PyStr or a PyInt.                      *)
(***************************************************************************)
\* MessageCache(ttl_seconds=300)
ttl_seconds == 300

\* an empty dict
EmptyDict == [k \in {} |-> 0]

\* d.get(key, default)
Get(d, key, default) == IF key \in DOMAIN d THEN d[key] ELSE default

\* d[key] = value
Put(d, key, value) == [k \in DOMAIN d \cup {key} |-> IF k = key THEN value ELSE d[k]]

\* "if v:" for a value that is a str, a number or None
TruthyValue(v) ==
    \/ v.type = "str" /\ v.value # <<>>
    \/ v.type \in {"int", "float"} /\ v.value # 0

\* a or b
Or(a, b) == IF TruthyValue(a) THEN a ELSE b

\* the decimal digits of n >= 0
RECURSIVE Digits(_)
Digits(n) ==
    IF n < 10 THEN <<Alphabet[Ord("0") + n]>>
    ELSE Digits(n \div 10) \o <<Alphabet[Ord("0") + (n % 10)]>>

\* f"{v}" for a str, an int or None
Format(v) ==
    IF v.type = "str" THEN v.value
    ELSE IF v.type = "int" THEN Digits(v.value)
    ELSE None

\* generate_hash: sha256 of f"{from_wa}:{text}:{timestamp}"; the digest is
\* taken to be free of collisions and stands for the string hashed
generate_hash(from_wa, text, timestamp) ==
    from_wa \o <<":">> \o Format(text) \o <<":">> \o timestamp

\* the entries is_duplicate keeps: those younger than the ttl
Swept(cache, now) ==
    [k \in {k \in DOMAIN cache : now - cache[k] < ttl_seconds} |-> cache[k]]

\* MUTANT of is_duplicate: a hit renews the entry's time
is_duplicate_Renews(cache, message_id, now) ==
    [cache |-> Put(Swept(cache, now), message_id, now),
     returned |-> message_id \in DOMAIN Swept(cache, now)]

\* MessageCache.is_duplicate at time now: the cache it leaves and the bool
\* it returns
is_duplicate(cache, message_id, now) ==
    IF message_id \in DOMAIN Swept(cache, now)
    THEN [cache |-> Swept(cache, now), returned |-> TRUE]
    ELSE [cache |-> Put(Swept(cache, now), message_id, now), returned |-> FALSE]

JSONResponse(content, status_code) == [content |-> content, status_code |-> status_code]

\* MUTANT of Rescued: the except block answers 500
Rescued_500(e) == JSONResponse([status |-> "error", error |-> e], 500)

\* the except block of receive, for the exception e
Rescued(e) == JSONResponse([status |-> "error", error |-> e], 200)

\* the text receive takes from the message msg of type mtype: [value |-> v],
\* or [raised |-> e] when taking it raises
user_text(msg, mtype) ==
    IF mtype = "text"
    THEN LET body == Get(Get(msg, "text", EmptyDict), "body", PyStr(<<>>))
         IN  IF body.type = "str" THEN [value |-> PyStr(strip(body.value))]
             ELSE [raised |-> "AttributeError"]
    ELSE IF mtype = "interactive"
    THEN LET inter == Get(msg, "interactive", EmptyDict)
         IN  IF "list_reply" \in DOMAIN inter
             THEN [value |-> Or(Get(inter.list_reply, "title", PyNone),
                                Get(inter.list_reply, "id", PyNone))]
             ELSE IF "button_reply" \in DOMAIN inter
             THEN [value |-> Or(Get(inter.button_reply, "title", PyNone),
                                Get(inter.button_reply, "id", PyNone))]
             ELSE [value |-> PyNone]
    ELSE IF mtype = "button"
    THEN [value |-> Get(Get(msg, "button", EmptyDict), "text", PyStr(<<>>))]
    ELSE IF mtype = "image" THEN [value |-> PyStr(<<"(Imagen recibida)">>)]
    ELSE IF mtype = "audio" THEN [value |-> PyStr(<<"(Audio recibido)">>)]
    ELSE IF mtype = "video" THEN [value |-> PyStr(<<"(Video recibido)">>)]
    ELSE IF mtype = "document" THEN [value |-> PyStr(<<"(Documento recibido)">>)]
    ELSE IF mtype = "location" THEN [value |-> PyStr(<<"(Ubicacion recibida)">>)]
    ELSE [value |-> PyStr(<<"(Mensaje tipo ", mtype, " no soportado)">>)]

\* the arguments of a scheduled call process_message_async(...)
Task(from_wa, text, message_id) ==
    [from_wa |-> from_wa, user_text |-> text, message_id |-> message_id]

\* what a run of receive leaves: the cache, the set of ids being processed,
\* the tasks it added to background_tasks, the hash it entered in the cache,
\* and its response
Left(cache, processing, added, hashed, response) ==
    [message_cache |-> cache, processing_messages |-> processing,
     added |-> added, hashed |-> hashed, response |-> response]

\* receive from "msg = messages[0]" on
receive_message(msg, cache, processing, now) ==
    LET message_id == Get(msg, "id", None)
        from_wa == Get(msg, "from", None)
        timestamp == Get(msg, "timestamp", <<>>)
        mtype == Get(msg, "type", "None")
        text == user_text(msg, mtype)
    IN  IF Truthy(message_id) /\ message_id \in processing
        THEN Left(cache, processing, <<>>, <<>>,
                  JSONResponse([status |-> "duplicate_processing"], 200))
        ELSE IF "raised" \in DOMAIN text
        THEN Left(cache, processing, <<>>, <<>>, Rescued(text.raised))
        ELSE IF ~TruthyValue(text.value)
        THEN Left(cache, processing, <<>>, <<>>,
                  JSONResponse([status |-> "empty_message"], 200))
        ELSE LET msg_hash == generate_hash(from_wa, text.value, timestamp)
                 seen == is_duplicate(cache, msg_hash, now)
                 tracked == IF Truthy(message_id)
                            THEN processing \cup {message_id} ELSE processing
             IN  IF seen.returned
                 THEN Left(seen.cache, processing, <<>>, <<>>,
                           JSONResponse([status |-> "duplicate"], 200))
                 \* user_text[:50] in the log line raises for a number
                 ELSE IF text.value.type # "str"
                 THEN Left(seen.cache, tracked, <<>>, <<msg_hash>>, Rescued("TypeError"))
                 ELSE Left(seen.cache, tracked,
                           <<Task(from_wa, text.value, message_id)>>, <<msg_hash>>,
                           JSONResponse([status |-> "processing"], 200))

\* POST /webhook: receive(request) with the cache and the set of ids as they
\* are at time now.  request.json is the parsed body; a request without it
\* has a body that is not JSON
receive(request, cache, processing, now) ==
    IF "json" \notin DOMAIN request
    THEN Left(cache, processing, <<>>, <<>>, Rescued("JSONDecodeError"))
    ELSE LET entry == Get(request.json, "entry", <<>>) IN
    IF Len(entry) = 0
    THEN Left(cache, processing, <<>>, <<>>, JSONResponse([status |-> "no_entry"], 200))
    ELSE LET changes == Get(entry[1], "changes", <<>>) IN
    IF Len(changes) = 0
    THEN Left(cache, processing, <<>>, <<>>, JSONResponse([status |-> "no_changes"], 200))
    ELSE LET messages == Get(Get(changes[1], "value", EmptyDict), "messages", <<>>) IN
    IF Len(messages) = 0
    THEN Left(cache, processing, <<>>, <<>>, JSONResponse([status |-> "no_message"], 200))
    ELSE receive_message(messages[1], cache, processing, now)

\* process_message_async(from_wa, user_text, message_id) on the set of ids:
\* the set it leaves and the text it sent.  query tells whether
\* agent_query_stream returns ("ok") or raises, send whether
\* send_whatsapp_text_360dialog does
process_message_async(task, processing, query, send) ==
    [processing_messages |-> processing \ {task.message_id},
     sent |-> IF send = "raises" THEN "nothing"
              ELSE IF query = "raises" THEN "apology" ELSE "reply"]

\* the bodies POSTed to /webhook
Hi == <<"h", "i">>
HiInBlanks == <<" ", "h", "i", " ">>
Five == <<"5">>
Blanks == <<" ", " ">>
Sender == <<"5", "7", "3">>
SentAt == <<"1", "7">>
Wamid1 == <<"m", "1">>
Wamid2 == <<"m", "2">>
Wamid3 == <<"m", "3">>

Body(messages) == [json |-> [entry |-> <<[changes |-> <<[value |-> messages]>>]>>]]
Delivery(msg) == Body([messages |-> <<msg>>])

TextMessage(id, body) ==
    [id |-> id, from |-> Sender, timestamp |-> SentAt, type |-> "text",
     text |-> [body |-> body]]
\* a text message that carries no id
TextWithoutId(body) ==
    [from |-> Sender, timestamp |-> SentAt, type |-> "text", text |-> [body |-> body]]
ButtonReply(id, title) ==
    [id |-> id, from |-> Sender, timestamp |-> SentAt, type |-> "interactive",
     interactive |-> [button_reply |-> [id |-> PyStr(<<"b">>), title |-> title]]]
Button(id, text) ==
    [id |-> id, from |-> Sender, timestamp |-> SentAt, type |-> "button",
     button |-> [text |-> text]]

NotJson == [raw |-> "{"]
NoEntry == [json |-> [object |-> "whatsapp_business_account"]]
NoChanges == [json |-> [entry |-> <<[id |-> "0"]>>]]
StatusUpdate == Body([statuses |-> <<[status |-> "delivered"]>>])

Messages ==
    {TextMessage(Wamid1, PyStr(Hi)), TextMessage(Wamid1, PyStr(HiInBlanks)),
     TextMessage(Wamid1, PyStr(Five)), TextMessage(Wamid1, PyStr(Blanks)),
     TextMessage(Wamid1, PyInt(5)), TextWithoutId(PyStr(Hi)),
     ButtonReply(Wamid2, PyStr(Hi)), Button(Wamid3, PyInt(5))}

Requests == {NotJson, NoEntry, NoChanges, StatusUpdate} \cup {Delivery(msg) : msg \in Messages}

\* the tasks that were added to background_tasks and have not run: a bag,
\* task -> number of pending calls
Pending == DOMAIN background_tasks

AddTasks(tasks, added) ==
    IF added = <<>> THEN tasks
    ELSE Put(tasks, added[1], Get(tasks, added[1], 0) + 1)

TaskRun(tasks, task) ==
    IF tasks[task] = 1 THEN [t \in DOMAIN tasks \ {task} |-> tasks[t]]
    ELSE [tasks EXCEPT ![task] = @ - 1]

\* the times at which a delivery with hash h passed is_duplicate
AcceptedAt(times, h) == Get(times, h, <<>>)

WebhookInit ==
    /\ program = "webhook"
    /\ cart = EmptyCart
    /\ call = [tool |-> "", arguments |-> <<>>]
    /\ result = <<>>
    /\ found_by = <<>>
    /\ search_history = <<>>
    /\ products_db = <<>>
    /\ NoPair /\ NoWebhook /\ NoWorkflow

\* a POST /webhook is handled
Receive ==
    /\ program = "webhook"
    /\ \E request \in Requests :
       \E r \in {receive(request, message_cache, processing_messages, clock)} :
          /\ message_cache' = r.message_cache
          /\ processing_messages' = r.processing_messages
          /\ background_tasks' = AddTasks(background_tasks, r.added)
          /\ accepted_at' = IF r.hashed = <<>> THEN accepted_at
                             ELSE Put(accepted_at, r.hashed[1],
                                      Append(AcceptedAt(accepted_at, r.hashed[1]), clock))
          /\ call' = [tool |-> "receive", arguments |-> request]
          /\ result' = r.response
    /\ UNCHANGED <<program, cart, found_by, search_history, products_db, clock,
                   pairVars, workflowVars>>

\* a task added by an earlier receive runs
RunTask ==
    /\ program = "webhook"
    /\ \E task \in Pending, query \in {"ok", "raises"}, send \in {"ok", "raises"} :
       \E r \in {process_message_async(task, processing_messages, query, send)} :
          /\ processing_messages' = r.processing_messages
          /\ background_tasks' = TaskRun(background_tasks, task)
          /\ call' = [tool |-> "process_message_async", arguments |-> task]
          /\ result' = [sent |-> r.sent]
    /\ UNCHANGED <<program, cart, found_by, search_history, products_db, clock,
                   message_cache, accepted_at, pairVars, workflowVars>>

\* time passes
Tick ==
    /\ program = "webhook"
    /\ clock + TickSeconds <= MaxClock
    /\ clock' = clock + TickSeconds
    /\ UNCHANGED <<program, cartVars, message_cache, processing_messages,
                   background_tasks, accepted_at, pairVars, workflowVars>>

WebhookNext ==
    \/ Receive
    \/ RunTask
    \/ Tick

WebhookSpec == WebhookInit /\ [][WebhookNext]_vars

(***************************************************************************)
(* WorkflowSpec: the workflow agents of Class 5, Parallel_agent/agent.py   *)
(* and Loop_agent/agent.py, each in its English (sources_en) and Spanish   *)
(* (sources) variant.  The files configure agents of google.adk; the       *)
(* scheduling of ParallelAgent, SequentialAgent and LoopAgent is modelled  *)
(* as the files describe it where they build these agents.  What a model   *)
(* answers is any of the texts of Texts.                                   *)
(***************************************************************************)
LlmAgent(output_key, reads, tools) ==
    [kind |-> "LlmAgent", sub_agents |-> <<>>, output_key |-> output_key,
     reads |-> reads, tools |-> tools, max_iterations |-> 0]
ParallelAgent(sub_agents) ==
    [kind |-> "ParallelAgent", sub_agents |-> sub_agents, output_key |-> <<>>,
     reads |-> {}, tools |-> {}, max_iterations |-> 0]
SequentialAgent(sub_agents) ==
    [kind |-> "SequentialAgent", sub_agents |-> sub_agents, output_key |-> <<>>,
     reads |-> {}, tools |-> {}, max_iterations |-> 0]
LoopAgent(sub_agents, max_iterations) ==
    [kind |-> "LoopAgent", sub_agents |-> sub_agents, output_key |-> <<>>,
     reads |-> {}, tools |-> {}, max_iterations |-> max_iterations]

\* sources_en/Class 5 - Workflows/Parallel_agent/agent.py
flight_researcher == LlmAgent(<<"flight_results">>, {}, {"google_search"})
hotel_researcher == LlmAgent(<<"hotel_results">>, {}, {"google_search"})
activities_researcher == LlmAgent(<<"activities_results">>, {}, {"google_search"})
parallel_research_agent ==
    ParallelAgent(<<"flight_researcher", "hotel_researcher", "activities_researcher">>)
synthesizer_agent ==
    LlmAgent(<<>>, {"flight_results", "hotel_results", "activities_results"}, {})
\* MUTANT of travel_planning_pipeline: the synthesis comes first
travel_planning_pipeline_SynthesisFirst ==
    SequentialAgent(<<"synthesizer_agent", "parallel_research_agent">>)

travel_planning_pipeline ==
    SequentialAgent(<<"parallel_research_agent", "synthesizer_agent">>)

\* sources/Clase 5 - Workflows/Parallel_agent/agent.py
investigador_vuelos == LlmAgent(<<"resultado_vuelos">>, {}, {"google_search"})
investigador_hoteles == LlmAgent(<<"resultado_hoteles">>, {}, {"google_search"})
investigador_actividades == LlmAgent(<<"resultado_actividades">>, {}, {"google_search"})
agente_investigacion_paralela ==
    ParallelAgent(<<"investigador_vuelos", "investigador_hoteles", "investigador_actividades">>)
agente_sintetizador ==
    LlmAgent(<<>>, {"resultado_vuelos", "resultado_hoteles", "resultado_actividades"}, {})
pipeline_planificacion_viaje ==
    SequentialAgent(<<"agente_investigacion_paralela", "agente_sintetizador">>)

\* sources_en/Class 5 - Workflows/Loop_agent/agent.py
writer == LlmAgent(<<"current_text">>, {}, {})
critic == LlmAgent(<<"critique">>, {}, {"exit_loop"})
\* MUTANT of refinement_loop: one more iteration is allowed
refinement_loop_Seven == LoopAgent(<<"writer", "critic">>, 7)

refinement_loop == LoopAgent(<<"writer", "critic">>, 6)

\* sources/Clase 5 - Workflows/Loop_agent/agent.py
escritor == LlmAgent(<<"texto_actual">>, {}, {})
critico == LlmAgent(<<"critica">>, {}, {"exit_loop"})
loop_refinamiento == LoopAgent(<<"escritor", "critico">>, 6)

ParallelPrograms == {"sources_en/Parallel_agent", "sources/Parallel_agent"}
LoopPrograms == {"sources_en/Loop_agent", "sources/Loop_agent"}
WorkflowPrograms == ParallelPrograms \cup LoopPrograms

\* the agents a program defines, by the name of their variable
Agents(prog) ==
    IF prog = "sources_en/Parallel_agent"
    THEN [flight_researcher |-> flight_researcher,
          hotel_researcher |-> hotel_researcher,
          activities_researcher |-> activities_researcher,
          parallel_research_agent |-> parallel_research_agent,
          synthesizer_agent |-> synthesizer_agent,
          travel_planning_pipeline |-> travel_planning_pipeline]
    ELSE IF prog = "sources/Parallel_agent"
    THEN [investigador_vuelos |-> investigador_vuelos,
          investigador_hoteles |-> investigador_hoteles,
          investigador_actividades |-> investigador_actividades,
          agente_investigacion_paralela |-> agente_investigacion_paralela,
          agente_sintetizador |-> agente_sintetizador,
          pipeline_planificacion_viaje |-> pipeline_planificacion_viaje]
    ELSE IF prog = "sources_en/Loop_agent"
    THEN [writer |-> writer, critic |-> critic, refinement_loop |-> refinement_loop]
    ELSE [escritor |-> escritor, critico |-> critico,
          loop_refinamiento |-> loop_refinamiento]

root_agent(prog) ==
    IF prog = "sources_en/Parallel_agent" THEN "travel_planning_pipeline"
    ELSE IF prog = "sources/Parallel_agent" THEN "pipeline_planificacion_viaje"
    ELSE IF prog = "sources_en/Loop_agent" THEN "refinement_loop"
    ELSE "loop_refinamiento"

\* the texts a model answers
Texts == {"draft", "revision"}

\* exit_loop(tool_context): the actions of the tool call's event and the
\* dict the tool returns
exit_loop(actions) ==
    [actions |-> [actions EXCEPT !.escalate = TRUE], returned |-> EmptyDict]

\* the names of the agents of the running program
Names == DOMAIN Agents(program)
Agent(a) == Agents(program)[a]
SubAgents(a) == {Agent(a).sub_agents[i] : i \in 1..Len(Agent(a).sub_agents)}
AllDone(a) == \A s \in SubAgents(a) : running[s] = "done"

\* it is the turn of agent a: its parent runs, and a ParallelAgent starts its
\* sub_agents in any order, a SequentialAgent and a LoopAgent theirs one
\* after the other, a LoopAgent none once a sub-agent has escalated
Runnable(a) ==
    \E p \in Names : \E i \in 1..Len(Agent(p).sub_agents) :
        /\ Agent(p).sub_agents[i] = a
        /\ running[p] = "running"
        /\ \/ Agent(p).kind = "ParallelAgent"
           \/ /\ \A j \in 1..(i - 1) : running[Agent(p).sub_agents[j]] = "done"
              /\ Agent(p).kind = "LoopAgent" => ~escalate

\* dict.update(state_delta)
Updated(state, output_key, text) ==
    IF output_key = <<>> THEN state ELSE Put(state, output_key[1], text)

WorkflowInit ==
    /\ program \in WorkflowPrograms
    /\ cart = EmptyCart
    /\ call = [tool |-> "", arguments |-> <<>>]
    /\ result = <<>>
    /\ found_by = <<>>
    /\ search_history = <<>>
    /\ products_db = <<>>
    /\ NoPair /\ NoWebhook
    /\ session_state = EmptyDict
    /\ running = [a \in Names |-> IF a = root_agent(program) THEN "running" ELSE "pending"]
    /\ times_looped = 0
    /\ escalate = FALSE

\* an agent is started by its parent; an LlmAgent fills the {key}
\* placeholders of its instruction from the session state
StartAgent ==
    /\ program \in WorkflowPrograms
    /\ \E a \in Names :
          /\ running[a] = "pending"
          /\ Runnable(a)
          /\ call' = [tool |-> a, arguments |->
                         [k \in Agent(a).reads \cap DOMAIN session_state |-> session_state[k]]]
          /\ IF Agent(a).reads \subseteq DOMAIN session_state
             THEN /\ running' = [running EXCEPT ![a] = "running"]
                  /\ result' = <<>>
             ELSE /\ running' = [running EXCEPT ![a] = "failed"]
                  /\ result' = [raised |-> "KeyError"]
    /\ UNCHANGED <<program, cart, found_by, search_history, products_db,
                   session_state, times_looped, escalate, pairVars, webhookVars>>

\* the model of an LlmAgent answers: the text is stored under the agent's
\* output_key, and an agent that has the exit_loop tool may have called it
AgentAnswers ==
    /\ program \in WorkflowPrograms
    /\ \E a \in Names, text \in Texts, exits \in BOOLEAN :
          /\ Agent(a).kind = "LlmAgent"
          /\ running[a] = "running"
          /\ exits => "exit_loop" \in Agent(a).tools
          /\ \E event \in {IF exits THEN exit_loop([escalate |-> FALSE])
                           ELSE [actions |-> [escalate |-> FALSE], returned |-> None]} :
                /\ escalate' = event.actions.escalate
                /\ result' = [text |-> text, returned |-> event.returned]
          /\ session_state' = Updated(session_state, Agent(a).output_key, text)
          /\ running' = [running EXCEPT ![a] = "done"]
          /\ call' = [tool |-> a, arguments |-> call.arguments]
    /\ UNCHANGED <<program, cart, found_by, search_history, products_db,
                   times_looped, pairVars, webhookVars>>

\* a ParallelAgent or SequentialAgent ends when all its sub_agents have
CompositeEnds ==
    /\ program \in WorkflowPrograms
    /\ \E a \in Names :
          /\ Agent(a).kind \in {"ParallelAgent", "SequentialAgent"}
          /\ running[a] = "running"
          /\ AllDone(a)
          /\ running' = [running EXCEPT ![a] = "done"]
    /\ UNCHANGED <<program, cartVars, session_state, times_looped, escalate,
                   pairVars, webhookVars>>

\* a LoopAgent ends when a sub-agent has escalated; otherwise, when its
\* sub_agents have run, it counts the iteration and runs them again unless
\* that was iteration max_iterations
LoopTurns ==
    /\ program \in WorkflowPrograms
    /\ \E a \in Names :
          /\ Agent(a).kind = "LoopAgent"
          /\ running[a] = "running"
          /\ \/ /\ escalate
                /\ running' = [running EXCEPT ![a] = "done"]
                /\ UNCHANGED times_looped
             \/ /\ ~escalate
                /\ AllDone(a)
                /\ times_looped' = times_looped + 1
                /\ running' =
                      IF times_looped + 1 < Agent(a).max_iterations
                      THEN [s \in Names |-> IF s \in SubAgents(a) THEN "pending" ELSE running[s]]
                      ELSE [running EXCEPT ![a] = "done"]
    /\ UNCHANGED <<program, cartVars, session_state, escalate, pairVars, webhookVars>>

WorkflowNext ==
    \/ StartAgent
    \/ AgentAnswers
    \/ CompositeEnds
    \/ LoopTurns

WorkflowSpec == WorkflowInit /\ [][WorkflowNext]_vars

\* the event loop runs every agent that can take a step, and the calls to
\* the model return
WorkflowFairSpec == WorkflowSpec /\ WF_vars(WorkflowNext)

(***************************************************************************)
(* Vocabulary of the properties                                            *)
(***************************************************************************)
\* the units of product pid over all lines of the cart
RECURSIVE QtyInCart(_, _)
QtyInCart(items, pid) ==
    IF items = <<>> THEN 0
    ELSE (IF Head(items).product_id = pid THEN Head(items).quantity ELSE 0)
         + QtyInCart(Tail(items), pid)

\* the lines of products other than pid, in order
RECURSIVE OtherLines(_, _)
OtherLines(items, pid) ==
    IF items = <<>> THEN <<>>
    ELSE (IF Head(items).product_id = pid THEN <<>> ELSE <<Head(items)>>)
         \o OtherLines(Tail(items), pid)

\* the positions of the lines of product pid
LinesOf(items, pid) == {i \in 1..Len(items) : items[i].product_id = pid}

PositiveInt(v) == v.type = "int" /\ v.value >= 1

IsAdd(cl) == cl.tool = "add_to_cart"
IsRemove(cl) == cl.tool = "remove_from_cart"
\* the quantity an add_to_cart call passes (1 when it passes none)
AddQty(cl) == IF "quantity" \in DOMAIN cl.arguments THEN cl.arguments.quantity ELSE PyInt(1)
HasQty(cl) == "quantity" \in DOMAIN cl.arguments
\* what the call's product name resolves to: <<key, product>> or <<>>
Target(cl) == Resolve(found_by, Catalog(program), cl.arguments.product)
Resolves(cl) == Target(cl) # <<>>

(***************************************************************************)
(* C1: for a catalog product p and a positive integer q with (quantity of  *)
(* p in the cart) + q <= stock(p), add_to_cart(p, q) returns success, the  *)
(* cart subtotal grows by exactly price(p) * q and every other line is     *)
(* unchanged.                                                              *)
(***************************************************************************)
C1_Step ==
    (/\ IsAdd(call')
     /\ PositiveInt(AddQty(call'))
     /\ Resolves(call')
     /\ QtyInCart(cart.items, Target(call')[2].id) + AddQty(call').value
            <= Target(call')[2].stock)
    => LET p == Target(call')[2]
           q == AddQty(call').value
       IN  /\ result'.status = "success"
           /\ get_subtotal(cart') = get_subtotal(cart) + p.price * q
           /\ OtherLines(cart'.items, p.id) = OtherLines(cart.items, p.id)
           /\ \A i \in 1..Len(cart.items) :
                 cart.items[i].product_id # p.id => cart'.items[i] = cart.items[i]

C1_AddRaisesSubtotal == [][C1_Step]_vars

\* an add that merged into a line of a cart with other lines
C1_Witness ==
    /\ IsAdd(call) /\ result.status = "success"
    /\ Len(cart.items) >= 2
    /\ QtyInCart(cart.items, Target(call)[2].id) > AddQty(call).value

(***************************************************************************)
(* C2: adding a product twice accumulates its quantity in one line; an add *)
(* (of a resolved product, with a positive integer quantity) is rejected   *)
(* with status error exactly when quantity in cart + requested > stock;    *)
(* the rejection reports stock - quantity in cart, and leaves the cart     *)
(* unchanged.                                                              *)
(***************************************************************************)
C2_Step ==
    (IsAdd(call') /\ PositiveInt(AddQty(call')) /\ Resolves(call'))
    => LET p == Target(call')[2]
           q == AddQty(call').value
           had == QtyInCart(cart.items, p.id)
       IN  /\ result'.status \in {"success", "error"}
           /\ result'.status = "error" <=> had + q > p.stock
           /\ result'.status = "error" =>
                 /\ result'.message.available = p.stock - had
                 /\ program = "agent" => result'.available = p.stock - had
                 /\ cart' = cart
           /\ result'.status = "success" =>
                 /\ Cardinality(LinesOf(cart'.items, p.id)) = 1
                 /\ QtyInCart(cart'.items, p.id) = had + q

C2_RejectsOnRemainingStock == [][C2_Step]_vars

\* a rejected add of a product that is in the cart: the count reported is
\* smaller than the nominal stock
C2_Witness ==
    /\ IsAdd(call) /\ result.status = "error"
    /\ "available" \in DOMAIN result.message
    /\ QtyInCart(cart.items, Target(call)[2].id) > 0
    /\ result.message.available < Target(call)[2].stock
    /\ AddQty(call).value <= Target(call)[2].stock

(***************************************************************************)
(* C3: in every reachable state every cart line has                        *)
(* subtotal = unit_price * quantity.                                       *)
(***************************************************************************)
C3_SubtotalConsistent ==
    \A i \in 1..Len(cart.items) :
        cart.items[i].subtotal = cart.items[i].unit_price * cart.items[i].quantity

\* a partial removal left a line whose quantity had been merged before
C3_Witness ==
    /\ IsRemove(call) /\ HasQty(call) /\ result.status = "success"
    /\ QtyInCart(cart.items, Target(call)[2].id) >= 2
    /\ cart.discount_code # None

(***************************************************************************)
(* C4: in every reachable state the cart holds at most one line per        *)
(* product id (an add of a product in the cart merges, never appends).     *)
(***************************************************************************)
C4_OneLinePerProduct ==
    \A i, j \in 1..Len(cart.items) :
        cart.items[i].product_id = cart.items[j].product_id => i = j

\* the product just added was in the cart before: its line holds more
\* units than the call added, and the cart has three lines
C4_Witness ==
    /\ IsAdd(call) /\ result.status = "success"
    /\ Len(cart.items) = 3
    /\ cart.items[1].product_id = Target(call)[2].id
    /\ cart.items[1].quantity > AddQty(call).value

(***************************************************************************)
(* C5: for every cart state, discount = subtotal * rate of the applied     *)
(* code (0 without a code), tax = (subtotal - discount) * 8% and           *)
(* total = subtotal - discount + tax + shipping; a cart with subtotal 200  *)
(* and WELCOME10 gives discount 20, tax 14.4, shipping 0, total 194.4.     *)
(* Amounts are in cents; calculate_total reports them to two decimals.     *)
(***************************************************************************)
\* the rate the specification gives each code, in percent
RateOf(code) ==
    IF code = WELCOME10 THEN 10
    ELSE IF code = SAVE20 THEN 20
    ELSE IF code = VIP30 THEN 30
    ELSE 0

\* an amount as printed: whole units and two decimals
Shown(units, decimals) == [units |-> units, decimals |-> decimals]
ShownCents(cents) == Shown(cents \div 100, cents % 100)

TotalReported == call.tool = "calculate_total" /\ result.status = "success"

\* the discount, tax, shipping and total that calculate_total reported
ReportedTotals ==
    IF program = "agent"
    THEN [subtotal |-> result.subtotal,
          discount |-> IF result.discount = <<>> THEN ShownCents(0)
                       ELSE result.discount[1].amount,
          tax |-> result.taxes.amount,
          shipping |-> result.shipping.cost,
          total |-> result.total]
    ELSE [subtotal |-> result.subtotal,
          discount |-> result.discount,
          tax |-> result.tax,
          shipping |-> result.shipping,
          total |-> result.total]

C5_Totals ==
    LET s == get_subtotal(cart)
        d == get_discount_amount(cart)
        t == get_tax(cart)
        sh == get_shipping(cart)
        tot == get_total(cart)
    IN  /\ d * 100 = s * RateOf(cart.discount_code)
        /\ t * 100 = (s - d) * 8
        /\ tot = s - d + t + sh
        /\ (s = 20000 /\ cart.discount_code = WELCOME10) =>
              d = 2000 /\ t = 1440 /\ sh = 0 /\ tot = 19440
        /\ TotalReported =>
              /\ ReportedTotals.subtotal = ShownCents(s)
              /\ ReportedTotals.discount = ShownCents(d)
              /\ ReportedTotals.tax = ShownCents(t)
              /\ ReportedTotals.total = ShownCents(tot)
        /\ (TotalReported /\ s = 20000 /\ cart.discount_code = WELCOME10) =>
              /\ ReportedTotals.discount = Shown(20, 0)
              /\ ReportedTotals.tax = Shown(14, 40)
              /\ ReportedTotals.shipping = Shown(0, 0)
              /\ ReportedTotals.total = Shown(194, 40)

\* calculate_total on a cart with subtotal 200 and WELCOME10
C5_Witness ==
    /\ TotalReported
    /\ get_subtotal(cart) = 20000
    /\ cart.discount_code = WELCOME10

(***************************************************************************)
(* C6: shipping is 0 if and only if the pre-discount subtotal is >= 100    *)
(* and is the fixed fee 10 otherwise; the applied code never changes it,   *)
(* so a cart with subtotal >= 100 ships free even when its discounted      *)
(* amount is below 100.                                                    *)
(***************************************************************************)
C6_Shipping ==
    LET s == get_subtotal(cart)
        d == get_discount_amount(cart)
        sh == get_shipping(cart)
    IN  /\ sh = 0 <=> s >= 10000
        /\ sh # 0 => sh = 1000
        /\ \A code \in {None, WELCOME10, SAVE20, VIP30} :
              get_shipping([cart EXCEPT !.discount_code = code]) = sh
        /\ TotalReported => ReportedTotals.shipping = ShownCents(IF s >= 10000 THEN 0 ELSE 1000)
        /\ (TotalReported /\ program = "agent") => result.shipping.free = (s >= 10000)

\* calculate_total reported free shipping for a cart whose subtotal is at
\* least 100 and whose discounted amount is below 100
C6_Witness ==
    /\ TotalReported
    /\ get_subtotal(cart) >= 10000
    /\ get_subtotal(cart) - get_discount_amount(cart) < 10000
    /\ ReportedTotals.shipping = Shown(0, 0)

(***************************************************************************)
(* C7: for a product p in the cart with quantity c, remove_from_cart(p)    *)
(* without quantity, or with a quantity n >= c, removes p's line; with     *)
(* 0 < n < c it leaves the line with quantity c - n and a recomputed       *)
(* subtotal; every other line and the order of the lines are unchanged.    *)
(***************************************************************************)
C7_Step ==
    (/\ IsRemove(call')
     /\ Resolves(call')
     /\ LinesOf(cart.items, Target(call')[2].id) # {})
    => LET p == Target(call')[2]
           c == QtyInCart(cart.items, p.id)
           n == call'.arguments.quantity.value
       IN  /\ (~HasQty(call') \/ n >= c) =>
                 /\ result'.status = "success"
                 /\ cart'.items = OtherLines(cart.items, p.id)
           /\ (HasQty(call') /\ 0 < n /\ n < c) =>
                 /\ result'.status = "success"
                 /\ Len(cart'.items) = Len(cart.items)
                 /\ \A i \in 1..Len(cart.items) :
                       cart'.items[i] =
                          IF cart.items[i].product_id = p.id
                          THEN [cart.items[i] EXCEPT
                                   !.quantity = c - n,
                                   !.subtotal = cart.items[i].unit_price * (c - n)]
                          ELSE cart.items[i]

C7_RemoveLineOrUnits == [][C7_Step]_vars

\* a call without quantity took a line of two or more units (agent.py
\* reports the units removed) out of a cart that keeps other lines
C7_Witness ==
    /\ IsRemove(call) /\ ~HasQty(call) /\ result.status = "success"
    /\ program = "agent" /\ result.removed_quantity >= 2
    /\ cart.items # <<>>

(***************************************************************************)
(* C8: remove_from_cart returns status error and leaves the cart unchanged *)
(* when the product does not resolve, when the resolved product has no     *)
(* line in the cart, or when an explicit quantity is zero or negative.     *)
(***************************************************************************)
C8_Step ==
    (/\ IsRemove(call')
     /\ \/ ~Resolves(call')
        \/ LinesOf(cart.items, Target(call')[2].id) = {}
        \/ HasQty(call') /\ call'.arguments.quantity.value <= 0)
    => /\ result'.status = "error"
       /\ cart' = cart

C8_RemoveRejects == [][C8_Step]_vars

\* a zero or negative quantity was refused for a product that is in the cart
C8_Witness ==
    /\ IsRemove(call) /\ HasQty(call) /\ call.arguments.quantity.value <= 0
    /\ Resolves(call)
    /\ LinesOf(cart.items, Target(call)[2].id) # {}
    /\ result.status = "error"

(***************************************************************************)
(* C9: add_to_cart rejects every quantity that is not a positive integer   *)
(* (zero, negative, non-integer) with status error, before resolving the   *)
(* product (the answer is the quantity error whether or not the name       *)
(* resolves), and leaves the cart unchanged.                               *)
(***************************************************************************)
C9_Step ==
    (IsAdd(call') /\ ~PositiveInt(AddQty(call')))
    => /\ result'.status = "error"
       /\ result'.message.text = "Quantity must be a positive integer."
       /\ cart' = cart

C9_AddRejectsBadQuantity == [][C9_Step]_vars

\* the quantity error was returned for a name that does not resolve
C9_Witness ==
    /\ IsAdd(call) /\ ~PositiveInt(AddQty(call))
    /\ ~Resolves(call)
    /\ result.status = "error"
    /\ result.message.text = "Quantity must be a positive integer."

(***************************************************************************)
(* C10 as stated: add_to_cart with a product name that find_product_fuzzy  *)
(* cannot resolve returns an error result that lists product suggestions,  *)
(* and leaves the cart unchanged.                                          *)
(***************************************************************************)
C10_Original_Step ==
    (IsAdd(call') /\ ~Resolves(call'))
    => /\ result'.status = "error"
       /\ "suggestions" \in DOMAIN result'
       /\ cart' = cart

C10_Original == [][C10_Original_Step]_vars

(***************************************************************************)
(* C10 amended: add_to_cart with a product name that find_product_fuzzy    *)
(* cannot resolve returns an error result that holds a status and a        *)
(* message only (no list of suggestions; with a positive integer quantity  *)
(* the message names the product asked for), and leaves the cart           *)
(* unchanged.                                                              *)
(***************************************************************************)
C10_Step ==
    (IsAdd(call') /\ ~Resolves(call'))
    => /\ result'.status = "error"
       /\ DOMAIN result' = {"status", "message"}
       /\ PositiveInt(AddQty(call')) =>
             result'.message.product = call'.arguments.product
       /\ cart' = cart

C10_UnresolvedNameRejected == [][C10_Step]_vars

\* an unresolved name with a good quantity was refused on a cart with lines
C10_Witness ==
    /\ IsAdd(call) /\ ~Resolves(call) /\ PositiveInt(AddQty(call))
    /\ result.status = "error"
    /\ cart.items # <<>>

(***************************************************************************)
(* Vocabulary of the discount properties                                   *)
(***************************************************************************)
IsApply(cl) == cl.tool = "apply_discount"
IsClear(cl) == cl.tool = "clear_cart"

\* the codes as the specification names them, with their trimmed, upper-cased
\* forms: " welcome10" is WELCOME10, "BOGUS" is in no table
CodeLowerWelcome == <<" ", "w", "e", "l", "c", "o", "m", "e", "1", "0">>
CodeBogus == <<"B", "O", "G", "U", "S">>
TableCodes == {WELCOME10, SAVE20, VIP30}
NormalForm(code) == IF code = CodeLowerWelcome THEN WELCOME10 ELSE code
InTable(code) == NormalForm(code) \in TableCodes

\* the units over all lines of a cart
RECURSIVE QtyTotal(_)
QtyTotal(items) ==
    IF items = <<>> THEN 0 ELSE items[1].quantity + QtyTotal(Tail(items))

(***************************************************************************)
(* C11 as stated: apply_discount with a code that is not in the discount   *)
(* table leaves the applied discount code unchanged and returns an error   *)
(* result containing the list of valid codes, in every cart state.         *)
(***************************************************************************)
C11_Original_Step ==
    (IsApply(call') /\ ~InTable(call'.arguments.code))
    => /\ cart'.discount_code = cart.discount_code
       /\ result'.status = "error"
       /\ "available_codes" \in DOMAIN result'

C11_Original == [][C11_Original_Step]_vars

(***************************************************************************)
(* C11 amended: apply_discount with a code that is not in the discount     *)
(* table leaves the cart (its lines and its applied code, none or a valid  *)
(* one) unchanged and returns an error result; on a cart with lines that   *)
(* result contains the list of valid codes WELCOME10, SAVE20, VIP30, on a  *)
(* cart without lines it is the empty-cart error and contains no list.     *)
(***************************************************************************)
C11_Step ==
    (IsApply(call') /\ ~InTable(call'.arguments.code))
    => /\ cart' = cart
       /\ result'.status = "error"
       /\ cart.items # <<>> =>
             /\ "available_codes" \in DOMAIN result'
             /\ result'.available_codes = <<WELCOME10, SAVE20, VIP30>>
       /\ cart.items = <<>> => "available_codes" \notin DOMAIN result'

C11_InvalidCodeRejected == [][C11_Step]_vars

\* an unknown code was refused, with the list, on a cart that keeps the
\* valid code applied before
C11_Witness ==
    /\ IsApply(call) /\ ~InTable(call.arguments.code)
    /\ result.status = "error"
    /\ "available_codes" \in DOMAIN result
    /\ cart.discount_code = SAVE20

(***************************************************************************)
(* C12: apply_discount on a cart with no lines returns status error for    *)
(* every code, valid or not, and does not set a discount code.             *)
(***************************************************************************)
C12_Step ==
    (IsApply(call') /\ cart.items = <<>>)
    => /\ result'.status = "error"
       /\ cart'.discount_code = cart.discount_code
       /\ cart' = cart

C12_EmptyCartRejectsCodes == [][C12_Step]_vars

\* a valid code was refused on a cart without lines
C12_Witness ==
    /\ IsApply(call) /\ InTable(call.arguments.code)
    /\ cart = EmptyCart
    /\ result.status = "error"

(***************************************************************************)
(* C13: on a cart with lines, apply_discount accepts a code if and only if *)
(* its trimmed, upper-cased form is WELCOME10, SAVE20 or VIP30 (10%, 20%,  *)
(* 30%); on acceptance the cart's one discount code becomes that form,     *)
(* whatever code was applied before, so the discount is that of the new    *)
(* code alone.                                                             *)
(***************************************************************************)
C13_Step ==
    (IsApply(call') /\ cart.items # <<>>)
    => LET code == call'.arguments.code IN
       /\ result'.status = "success" <=> InTable(code)
       /\ result'.status \in {"success", "error"}
       /\ result'.status = "success" =>
             /\ cart'.discount_code = NormalForm(code)
             /\ cart'.items = cart.items
             /\ result'.discount.percentage = RateOf(NormalForm(code))
             /\ get_discount_amount(cart') * 100 =
                   get_subtotal(cart) * RateOf(NormalForm(code))
             /\ result'.discount.amount =
                   ShownCents((get_subtotal(cart) * RateOf(NormalForm(code))) \div 100)

C13_AcceptsTableCodes == [][C13_Step]_vars

\* " welcome10" was accepted and the cart's code is WELCOME10
C13_Witness ==
    /\ IsApply(call) /\ call.arguments.code = CodeLowerWelcome
    /\ result.status = "success"
    /\ cart.discount_code = WELCOME10
    /\ cart.items # <<>>

(***************************************************************************)
(* C14: from any cart state clear_cart returns status success, leaves the  *)
(* cart with no lines and no discount code, and reports the counts of what *)
(* was in the cart right before the call (agent.py: lines and units, the   *)
(* tool server: lines); on the cart it has emptied it succeeds again and   *)
(* reports zero.                                                           *)
(***************************************************************************)
C14_Step ==
    IsClear(call')
    => /\ result'.status = "success"
       /\ cart'.items = <<>>
       /\ cart'.discount_code = None
       /\ program = "agent" =>
             /\ result'.removed_products = Len(cart.items)
             /\ result'.removed_units = QtyTotal(cart.items)
       /\ program = "mcp" => result'.products_removed = Len(cart.items)
       /\ cart.items = <<>> =>
             IF program = "agent"
             THEN result'.removed_products = 0 /\ result'.removed_units = 0
             ELSE result'.products_removed = 0

C14_ClearEmptiesCart == [][C14_Step]_vars

\* clear_cart reported two lines or more removed
C14_Witness ==
    /\ IsClear(call) /\ result.status = "success"
    /\ cart = EmptyCart
    /\ IF program = "agent" THEN result.removed_products >= 2
       ELSE result.products_removed >= 2

(***************************************************************************)
(* C15: calculate_total and view_cart are read-only: a call of either      *)
(* leaves the cart's lines and discount code unchanged, and two calls of   *)
(* the same tool with no other call in between return identical values.    *)
(***************************************************************************)
C15_Step ==
    (call'.tool \in {"calculate_total", "view_cart"})
    => /\ cart' = cart
       /\ call.tool = call'.tool => result' = result

C15_ReadOnlyTotals == [][C15_Step]_vars

\* calculate_total answered on a cart with lines and a discount code
C15_Witness ==
    /\ call.tool = "calculate_total"
    /\ result.status = "success"
    /\ cart.items # <<>>
    /\ cart.discount_code # None


(***************************************************************************)
(* Vocabulary of the properties about every tool                           *)
(***************************************************************************)
StatusValues == {"success", "error", "empty", "not_found"}
IsSearch(cl) == cl.tool \in {"search_product_by_name", "search_product"}
IsShowHistory(cl) == cl.tool \in {"show_search_history", "show_history"}
\* a tool was called and it returned a dict (no exception left the call)
Returned == call.tool # "" /\ "raised" \notin DOMAIN result
\* the dict the tool server answers for an exception it caught
BoundaryError == DOMAIN result = {"error"}
\* the success results that carry no message
SuccessWithoutMessage ==
    \/ call.tool = "view_cart"
    \/ IsShowHistory(call)
    \/ program = "mcp" /\ call.tool = "recommend_products"

(***************************************************************************)
(* C16 as stated: every tool operation, on every outcome path, returns a   *)
(* structured result that carries a status field whose value is one of     *)
(* success, error, empty or not_found, together with a human-readable      *)
(* message.                                                                *)
(***************************************************************************)
C16_Original ==
    call.tool # ""
    => /\ "status" \in DOMAIN result
       /\ result.status \in StatusValues
       /\ "message" \in DOMAIN result

(***************************************************************************)
(* C16 amended: every result a tool operation returns carries a status     *)
(* field whose value is one of success, error, empty or not_found, except  *)
(* the tool server's answer for an exception it caught, which carries an   *)
(* error text only; a human-readable message comes with every error, empty *)
(* and not_found result and with every success result other than those of  *)
(* view_cart, of show_search_history / show_history and of the tool        *)
(* server's recommend_products, which carry none.                          *)
(***************************************************************************)
C16_TaggedResults ==
    Returned
    => IF BoundaryError
       THEN program = "mcp"
       ELSE /\ "status" \in DOMAIN result
            /\ result.status \in StatusValues
            /\ "message" \in DOMAIN result
                  <=> ~(result.status = "success" /\ SuccessWithoutMessage)

\* view_cart returned a success result, which has no message
C16_Witness ==
    /\ call.tool = "view_cart"
    /\ Returned
    /\ result.status = "success"
    /\ "message" \notin DOMAIN result

(***************************************************************************)
(* C17 as stated: no cart operation changes any state other than the       *)
(* single shared cart: search, add, remove, apply-discount, totals,        *)
(* recommend and clear leave all other process state (the search history,  *)
(* the catalog) unchanged.                                                 *)
(***************************************************************************)
C17_Original_Step ==
    /\ search_history' = search_history
    /\ products_db' = products_db

C17_Original == [][C17_Original_Step]_vars

(***************************************************************************)
(* C17 amended: no operation changes any state other than the shared cart  *)
(* and the search history: search appends the name searched for to the     *)
(* search history and leaves the cart and the catalog unchanged; add,      *)
(* remove, apply-discount, view, totals, recommend, show-history and clear *)
(* leave the search history and the catalog unchanged.                     *)
(***************************************************************************)
C17_Step ==
    /\ products_db' = products_db
    /\ IF IsSearch(call')
       THEN /\ search_history' = Append(search_history, call'.arguments.product_name)
            /\ cart' = cart
       ELSE search_history' = search_history

C17_OnlyCartAndHistoryChange == [][C17_Step]_vars

\* a second search was recorded while the cart holds lines
C17_Witness ==
    /\ IsSearch(call)
    /\ Len(search_history) = 2
    /\ search_history[2] = call.arguments.product_name
    /\ cart.items # <<>>

(***************************************************************************)
(* C18: for every tool invocation, whatever the argument values (missing,  *)
(* null or wrongly typed ones included), an internal fault is caught at    *)
(* the tool boundary and returned as an error payload: no exception        *)
(* propagates out of the tool call.                                        *)
(***************************************************************************)
C18_NoExceptionEscapes ==
    call.tool # "" => "raised" \notin DOMAIN result

(***************************************************************************)
(* C19: the catalog is never mutated at runtime: after any sequence of     *)
(* operations every product's stock, price and other fields equal their    *)
(* initial values; a successful add_to_cart does not decrement the stock,  *)
(* and the stock limit is enforced against the quantity in the cart only:  *)
(* an add of q units succeeds exactly when the units of the product in the *)
(* cart plus q do not exceed the initial stock.                            *)
(***************************************************************************)
C19_Step ==
    /\ products_db = Catalog(program)
    /\ products_db' = Catalog(program)
    /\ (IsAdd(call') /\ Resolves(call') /\ PositiveInt(AddQty(call')))
       => (result'.status = "success"
             <=> QtyInCart(cart.items, Target(call')[2].id) + AddQty(call').value
                    <= Target(call')[2].stock)

C19_CatalogNeverMutated == [][C19_Step]_vars

\* the cart holds the monitor's whole stock and the catalog still lists it
C19_Witness ==
    /\ IsAdd(call) /\ result.status = "success"
    /\ QtyInCart(cart.items, "MON003") = 5
    /\ \E i \in 1..Len(products_db) :
          products_db[i].id = "MON003" /\ products_db[i].stock = 5

(***************************************************************************)
(* Vocabulary of the fuzzy search properties                               *)
(***************************************************************************)
LaptopKey == <<"g", "a", "m", "i", "n", "g", " ", "l", "a", "p", "t", "o", "p", " ", "p", "r", "o">>
\* the similarity of "leptop" and of "gaming leptop pro" to the laptop's key
LeptopRatio == ratio(LaptopKey, QLeptop)
LeptopFullRatio == ratio(LaptopKey, QLeptopFull)

IsRecommend(cl) == cl.tool = "recommend_products"
CategoryGiven(cl) == "category" \in DOMAIN cl.arguments
CategoryPeripheralsLower ==
    <<"p", "e", "r", "i", "p", "h", "e", "r", "a", "l", "s">>
\* p comes before q in the order (rating, review count) descending
Outranks(p, q) ==
    p.rating > q.rating \/ (p.rating = q.rating /\ p.reviews > q.reviews)
\* the catalog positions of the products of the given category, ignoring case
OfCategory(category) ==
    {i \in 1..Len(products_db) : lower(products_db[i].category) = lower(category)}
WholeCatalog == 1..Len(products_db)
\* the catalog position of the product a recommendation names
NamedBy(rec) == CHOOSE i \in WholeCatalog : products_db[i].name = rec.name
\* recs is the best min(3, |candidates|) of the candidates, best first
RankedTop(recs, candidates) ==
    LET chosen == {NamedBy(recs[k]) : k \in 1..Len(recs)} IN
    /\ Len(recs) <= 3
    /\ Len(recs) = (IF Cardinality(candidates) < 3 THEN Cardinality(candidates) ELSE 3)
    /\ \A k \in 1..Len(recs) :
          /\ products_db[NamedBy(recs[k])].name = recs[k].name
          /\ products_db[NamedBy(recs[k])].category = recs[k].category
          /\ NamedBy(recs[k]) \in candidates
    /\ \A k, l \in 1..Len(recs) :
          k < l => Outranks(products_db[NamedBy(recs[k])], products_db[NamedBy(recs[l])])
    /\ \A i \in candidates \ chosen, k \in 1..Len(recs) :
          ~Outranks(products_db[i], products_db[NamedBy(recs[k])])
\* recommend_products answered error and listed the catalog's categories
ErrorListsCategories ==
    /\ result.status = "error"
    /\ "available_categories" \in DOMAIN result
    /\ result.available_categories =
          {products_db[i].category : i \in WholeCatalog}
RecommendedFrom(candidates) ==
    IF candidates = {}
    THEN ErrorListsCategories
    ELSE /\ result.status = "success"
         /\ RankedTop(result.recommendations, candidates)

(***************************************************************************)
(* C21 as stated: recommend_products returns at most 3 products, sorted by *)
(* (rating, review count) descending, taken from the whole catalog when no *)
(* category is given or from the products whose category equals the given  *)
(* one ignoring case; a category that matches no product yields status     *)
(* error listing the available categories.                                 *)
(***************************************************************************)
C21_Original ==
    (IsRecommend(call) /\ Returned)
    => RecommendedFrom(IF CategoryGiven(call)
                       THEN OfCategory(call.arguments.category)
                       ELSE WholeCatalog)

(***************************************************************************)
(* C21 amended: recommend_products returns at most 3 products, sorted by   *)
(* (rating, review count) descending, taken from the whole catalog when no *)
(* category or the empty string is given, or from the products whose       *)
(* category equals the given non-empty one ignoring case; a non-empty      *)
(* category that matches no product yields status error listing the        *)
(* available categories.                                                   *)
(***************************************************************************)
C21_TopThreeByRating ==
    (IsRecommend(call) /\ Returned)
    => RecommendedFrom(IF CategoryGiven(call) /\ call.arguments.category # <<>>
                       THEN OfCategory(call.arguments.category)
                       ELSE WholeCatalog)

\* both branches happened: the whole catalog gave three products, or the
\* category "peripherals" gave the two of "Peripherals", or a category gave
\* none; the witness is the category in another case
C21_Witness ==
    /\ IsRecommend(call)
    /\ Returned
    /\ CategoryGiven(call)
    /\ call.arguments.category = CategoryPeripheralsLower
    /\ result.status = "success"
    /\ Len(result.recommendations) = 2
    /\ result.recommendations[1].name = "Gaming Mouse Pro"

(***************************************************************************)
(* C27: in every reachable state, every cart line has an integer quantity  *)
(* q with 1 <= q <= stock of its product: no sequence of add_to_cart and   *)
(* remove_from_cart calls leaves a line with quantity zero, a negative     *)
(* quantity, or more units than the catalog stock.                         *)
(***************************************************************************)
C27_QuantityWithinStock ==
    \A i \in 1..Len(cart.items) :
        /\ "quantity" \in DOMAIN cart.items[i]
        /\ cart.items[i].quantity \in Int
        /\ \E p \in 1..Len(Catalog(program)) :
              /\ Catalog(program)[p].id = cart.items[i].product_id
              /\ 1 <= cart.items[i].quantity
              /\ cart.items[i].quantity <= Catalog(program)[p].stock

(***************************************************************************)
(* C28: every cart operation that returns a status other than success      *)
(* (error, empty, not_found) leaves the cart's lines, their order, their   *)
(* quantities and the applied discount code exactly as they were before    *)
(* the call.                                                               *)
(***************************************************************************)
C28_Step ==
    ("status" \in DOMAIN result' /\ result'.status # "success")
    => /\ cart'.items = cart.items
       /\ cart'.discount_code = cart.discount_code

C28_FailureLeavesCart == [][C28_Step]_vars

\* apply_discount refused a code on a cart that has lines and a code
C28_Witness ==
    /\ IsApply(call)
    /\ result.status = "error"
    /\ cart.items # <<>>
    /\ cart.discount_code # None

(***************************************************************************)
(* C29: add_to_cart and remove_from_cart never change the applied discount *)
(* code; only apply_discount sets it and only clear_cart resets it, so a   *)
(* code applied to a non-empty cart is still applied after                 *)
(* remove_from_cart removes the last line and applies to items added       *)
(* afterwards.                                                             *)
(***************************************************************************)
C29_Step ==
    /\ (IsAdd(call') \/ IsRemove(call')) => cart'.discount_code = cart.discount_code
    /\ cart'.discount_code # cart.discount_code
          => \/ IsApply(call') /\ result'.status = "success" /\ cart'.discount_code \in TableCodes
             \/ IsClear(call') /\ cart'.discount_code = None
    /\ (IsAdd(call') /\ cart.items = <<>> /\ cart.discount_code # None
          /\ result'.status = "success")
          => /\ get_discount_amount(cart') > 0
             /\ get_discount_amount(cart') * 100 =
                   cart'.items[1].unit_price * cart'.items[1].quantity
                      * RateOf(cart'.discount_code)

C29_OnlyApplyAndClearSetCode == [][C29_Step]_vars

\* remove_from_cart removed the last line and the code is still applied
C29_Witness ==
    /\ IsRemove(call)
    /\ result.status = "success"
    /\ cart.items = <<>>
    /\ cart.discount_code # None

(***************************************************************************)
(* Vocabulary of the comparison of the two programs                        *)
(***************************************************************************)
\* the same lines by product id, with the same quantities, in the same
\* order, and the same discount code
SameCart(a, s) ==
    /\ a.discount_code = s.discount_code
    /\ Len(a.items) = Len(s.items)
    /\ \A i \in 1..Len(a.items) :
          /\ a.items[i].product_id = s.items[i].product_id
          /\ a.items[i].quantity = s.items[i].quantity
\* the same subtotal, discount, tax, shipping and total
SameTotals(a, s) ==
    /\ get_subtotal(a) = get_subtotal(s)
    /\ get_discount_amount(a) = get_discount_amount(s)
    /\ get_tax(a) = get_tax(s)
    /\ get_shipping(a) = get_shipping(s)
    /\ get_total(a) = get_total(s)
\* the product id a name stands for in a catalog ("" for none)
IdOf(table, db, name) ==
    IF Resolve(table, db, name) = <<>> THEN "" ELSE Resolve(table, db, name)[2].id
\* the call names no product, or a product that has one product id in both
\* catalogs (or none in both)
OneProductId(cl) ==
    "product" \in DOMAIN cl.arguments
    => IdOf(found_by.agent, PRODUCTS_DB, cl.arguments.product)
          = IdOf(found_by.mcp, MCP_PRODUCTS_DB, cl.arguments.product)

(***************************************************************************)
(* C30: the direct-tool agent and the MCP tool server implement the same   *)
(* cart: for every sequence of add, remove, apply-discount, clear and      *)
(* total calls with the same arguments (products identified by product     *)
(* id), both return the same status at every step and end in the same cart *)
(* state (lines, quantities, discount code) with the same subtotal,        *)
(* discount, tax, shipping and total.  Stated per step: from carts that    *)
(* are the same, a call whose product has one product id in both programs  *)
(* is answered with the same status and leaves carts that are the same.    *)
(***************************************************************************)
C30_Step ==
    (SameCart(cart, shopping_cart) /\ OneProductId(call'))
    => /\ "status" \in DOMAIN result'
       /\ "status" \in DOMAIN mcp_result'
       /\ result'.status = mcp_result'.status
       /\ SameCart(cart', shopping_cart')
       /\ SameTotals(cart', shopping_cart')

C30_SameCartInBothPrograms == [][C30_Step]_vars

(***************************************************************************)
(* Vocabulary of the webhook properties                                    *)
(***************************************************************************)
Deliveries == {Delivery(msg) : msg \in Messages}

\* the step is a run of receive on a body that carries a message
IsDelivery ==
    /\ program = "webhook"
    /\ call'.tool = "receive"
    /\ clock' = clock
    /\ call'.arguments \in Deliveries

\* the message the step delivers
Delivered == call'.arguments.json.entry[1].changes[1].value.messages[1]

\* the message has a text to hash: taking it does not raise and it is not empty
Hashed(msg) ==
    LET text == user_text(msg, msg.type)
    IN  "value" \in DOMAIN text /\ TruthyValue(text.value)

TextOf(msg) == user_text(msg, msg.type).value
HashOf(msg) == generate_hash(msg.from, TextOf(msg), msg.timestamp)
MessageId(msg) == Get(msg, "id", None)

\* the message carries an id that is in processing_messages
BeingProcessed(msg) ==
    Truthy(MessageId(msg)) /\ MessageId(msg) \in processing_messages

\* fewer than 300 seconds have passed since the last delivery with hash h
\* that passed the duplicate test
WindowOpen(h) ==
    LET times == AcceptedAt(accepted_at, h)
    IN  Len(times) > 0 /\ clock - times[Len(times)] < 300

\* the deliveries that passed the duplicate test lie 300 seconds apart or more
Spaced(times) ==
    \A h \in DOMAIN times :
        \A i, j \in 1..Len(times[h]) : i < j => times[h][j] - times[h][i] >= 300

\* the step schedules no task / the task of the message msg
SchedulesNothing == background_tasks' = background_tasks
Schedules(msg) ==
    background_tasks' =
        AddTasks(background_tasks, <<Task(msg.from, TextOf(msg), MessageId(msg))>>)

Answered(status) == result'.status_code = 200 /\ result'.content.status = status

(***************************************************************************)
(* C22 as stated: a message with the same (sender, text, timestamp) hash   *)
(* is scheduled at most once within any 300-second window counted from its *)
(* first accepted delivery; every repeat inside the window is answered     *)
(* `duplicate` and schedules no task, a hit does not extend the window,    *)
(* and once the window has elapsed the message is accepted and processed   *)
(* again.  Stated of the messages whose text is a string.                  *)
(***************************************************************************)
C22_OriginalStep ==
    IsDelivery /\ Hashed(Delivered) /\ TextOf(Delivered).type = "str" =>
        /\ Spaced(accepted_at')
        /\ WindowOpen(HashOf(Delivered)) =>
              Answered("duplicate") /\ SchedulesNothing
        /\ ~WindowOpen(HashOf(Delivered)) =>
              Answered("processing") /\ Schedules(Delivered)

C22_Original == [][C22_OriginalStep]_vars

(***************************************************************************)
(* C22 (amended): a message with the same (sender, text, timestamp) hash   *)
(* is scheduled at most once within any 300-second window counted from the *)
(* delivery that entered the hash in the cache; a repeat inside the window *)
(* schedules no task and is answered `duplicate`, or `duplicate_processing`*)
(* when it carries an id that is in processing_messages; a hit does not    *)
(* extend the window; once the window has elapsed a delivery whose id is   *)
(* not in processing_messages enters the hash in the cache afresh and,     *)
(* its text being a string, is scheduled and answered `processing`.        *)
(***************************************************************************)
C22_Step ==
    IsDelivery /\ Hashed(Delivered) =>
        /\ Spaced(accepted_at')
        /\ ~SchedulesNothing => accepted_at' # accepted_at
        /\ WindowOpen(HashOf(Delivered)) =>
              /\ SchedulesNothing
              /\ accepted_at' = accepted_at
              /\ IF BeingProcessed(Delivered)
                 THEN Answered("duplicate_processing")
                 ELSE Answered("duplicate")
        /\ ~WindowOpen(HashOf(Delivered)) /\ ~BeingProcessed(Delivered) =>
              /\ HashOf(Delivered) \in DOMAIN message_cache'
              /\ message_cache'[HashOf(Delivered)] = clock
              /\ IF TextOf(Delivered).type = "str"
                 THEN Answered("processing") /\ Schedules(Delivered)
                 ELSE SchedulesNothing

C22_ScheduledOncePerWindow == [][C22_Step]_vars

\* the message "hi" was accepted, accepted again when its window had elapsed,
\* and a further repeat was then answered duplicate
C22_Witness ==
    /\ program = "webhook"
    /\ call.tool = "receive"
    /\ call.arguments = Delivery(TextMessage(Wamid1, PyStr(HiInBlanks)))
    /\ Len(AcceptedAt(accepted_at, HashOf(TextMessage(Wamid1, PyStr(Hi))))) = 2
    /\ WindowOpen(HashOf(TextMessage(Wamid1, PyStr(Hi))))
    /\ result.content.status = "duplicate"

(***************************************************************************)
(* C23: POST /webhook answers HTTP 200 for every body: a body without      *)
(* entry, changes or messages, a message whose text is empty, a duplicate, *)
(* and a body on which the handler raises are each answered 200 with the   *)
(* status of their case.                                                   *)
(***************************************************************************)
C23_AlwaysAnswers200 ==
    program = "webhook" /\ call.tool = "receive" =>
        /\ result.status_code = 200
        /\ result.content.status \in
              {"no_entry", "no_changes", "no_message", "empty_message",
               "duplicate", "duplicate_processing", "processing", "error"}
        /\ call.arguments = NotJson => result.content.status = "error"
        /\ call.arguments = NoEntry => result.content.status = "no_entry"
        /\ call.arguments = NoChanges => result.content.status = "no_changes"
        /\ call.arguments = StatusUpdate => result.content.status = "no_message"
        /\ call.arguments = Delivery(TextMessage(Wamid1, PyStr(Blanks))) =>
              result.content.status \in {"empty_message", "duplicate_processing"}
        /\ call.arguments = Delivery(TextMessage(Wamid1, PyInt(5))) =>
              result.content.status \in {"error", "duplicate_processing"}

\* a body that is not JSON was answered 200 by the except block
C23_Witness ==
    /\ program = "webhook"
    /\ call.tool = "receive"
    /\ call.arguments = NotJson
    /\ result = JSONResponse([status |-> "error", error |-> "JSONDecodeError"], 200)

\* the ids carried by the tasks that have not run
PendingIds(tasks) == {task.message_id : task \in DOMAIN tasks}

(***************************************************************************)
(* C24: every id added to processing_messages is removed when its          *)
(* process_message_async task ends, whether the agent query and the send   *)
(* succeed or raise, so every id in the set belongs to a task that has not *)
(* run and the set is empty once all scheduled tasks have run; a delivery  *)
(* whose id is in the set is answered duplicate_processing, schedules no   *)
(* task and leaves the hash cache as it was.                               *)
(***************************************************************************)
C24_Step ==
    /\ program = "webhook" =>
          processing_messages' \subseteq PendingIds(background_tasks')
    /\ program = "webhook" /\ call'.tool = "process_message_async"
          /\ background_tasks' # background_tasks =>
          processing_messages' = processing_messages \ {call'.arguments.message_id}
    /\ IsDelivery /\ BeingProcessed(Delivered) =>
          /\ Answered("duplicate_processing")
          /\ SchedulesNothing
          /\ message_cache' = message_cache

C24_IdsRemovedWhenTaskEnds == [][C24_Step]_vars

(***************************************************************************)
(* Vocabulary of the workflow properties                                   *)
(***************************************************************************)
\* the agents that store their answer in the session state
Writers == {a \in Names : Agent(a).output_key # <<>>}
\* the agents whose instruction reads keys of the session state
Readers == {a \in Names : Agent(a).reads # {}}
Started(a) == running[a] # "pending"
Stored(a) == Agent(a).output_key[1] \in DOMAIN session_state
LoopAgents == {a \in Names : Agent(a).kind = "LoopAgent"}
Finished == running[root_agent(program)] = "done"

C26_Step ==
    program \in LoopPrograms =>
        \A l \in LoopAgents :
            /\ times_looped' <= 6
            \* Writer, then Critic
            /\ Agent(l).sub_agents \in {<<"writer", "critic">>, <<"escritor", "critico">>}
            /\ Started(Agent(l).sub_agents[2])' =>
                  running'[Agent(l).sub_agents[1]] = "done"
            \* the loop ends after iteration 6 or on escalate, and at once
            /\ Finished' => escalate' \/ times_looped' = 6
            /\ escalate => Finished' /\ times_looped' = times_looped
            /\ times_looped = 6 => Finished
            \* exit_loop sets escalate and nothing else
            /\ escalate' /\ ~escalate =>
                  /\ call'.tool = Agent(l).sub_agents[2]
                  /\ result'.returned = EmptyDict
                  /\ times_looped' = times_looped
                  /\ session_state' =
                        Updated(session_state, Agent(call'.tool).output_key, result'.text)

====
